---- MODULE Spec2Model ----
(***************************************************************************)
(* Workload-adaptive index advisor (ThrillFlybb/DBMS---Project).           *)
(*                                                                         *)
(* The model covers the frequency tracker (update_frequency_counter), the  *)
(* index advisor (auto_manage_indexes) and the SQLite store they share:    *)
(* the attribute_frequency table, the index catalog (sqlite_master), the   *)
(* single write lock of the database file and the open transaction of each *)
(* connection.  Two deployments exist in the repository and both are       *)
(* modelled, selected by the variable mode:                                *)
(*   "backend"  src/backend: one DBManager connection shared by the tick   *)
(*              thread and the index-manager thread, no retry;             *)
(*   "app"      src/app.py: a fresh connection per call, three attempts.   *)
(***************************************************************************)
EXTENDS Integers, Sequences, FiniteSets, TLC

(***************************************************************************)
(* Bounds of the model.                                                    *)
(***************************************************************************)
MaxFreq == 2        \* frequencies of the tables the advisor is started on
MaxCalls == 1       \* record calls issued by each caller
MaxInitRows == 2    \* rows already present when the tracker starts

(***************************************************************************)
(* Program constants.                                                      *)
(***************************************************************************)
MinRows == 3        \* if len(all_cols) < 3: return
TopN == 3           \* top_three = all_cols[:3]
BottomM == 6        \* bottom_six = all_cols[-6:]
MaxRetries == 3     \* max_retries = 3

UniqueIdx == "idx_freq_unique"

\* Columns declared by the schema, per table.
DeclaredCols(t) ==
    CASE t = "customers" -> {"id", "name", "email", "city", "join_date"}
      [] t = "orders" -> {"id", "customer_id", "order_date", "amount", "status"}
      [] OTHER -> {}

Min2(a, b) == IF a < b THEN a ELSE b
Max2(a, b) == IF a > b THEN a ELSE b

Row(t, c, n) == [t |-> t, c |-> c, n |-> n]

(***************************************************************************)
(* The attribute_frequency table is a sequence of rows in rowid order.     *)
(***************************************************************************)
RowsOf(tab, t, c) == {i \in 1..Len(tab) : tab[i].t = t /\ tab[i].c = c}

\* frequency of (t, c), 0 when the table has no row for it
FreqOf(tab, t, c) ==
    IF RowsOf(tab, t, c) = {} THEN 0
    ELSE tab[CHOOSE i \in RowsOf(tab, t, c) : TRUE].n

\* UPDATE ... SET frequency = frequency + 1 WHERE table_name = ? AND column_name = ?
UpdateFrequency(tab, t, c) ==
    [i \in 1..Len(tab) |->
        IF tab[i].t = t /\ tab[i].c = c THEN Row(t, c, tab[i].n + 1) ELSE tab[i]]

\* faulty variant: the row is inserted with frequency 0
InsertAtZero(tab, t, c) == Append(tab, Row(t, c, 0))

\* INSERT INTO attribute_frequency (table_name, column_name, frequency) VALUES (?, ?, 1)
InsertFrequency(tab, t, c) == Append(tab, Row(t, c, 1))

\* faulty variant: the insert without the rowcount test
InsertOnly(tab, t, c) == Append(tab, Row(t, c, 1))

\* faulty variant: the rowcount test inverted
InsertOnHit(tab, t, c) ==
    IF RowsOf(tab, t, c) = {} THEN UpdateFrequency(tab, t, c) ELSE InsertFrequency(tab, t, c)

\* the update; if cur.rowcount == 0, the insert
UpdateOrInsert(tab, t, c) ==
    IF RowsOf(tab, t, c) = {} THEN InsertFrequency(tab, t, c)
    ELSE UpdateFrequency(tab, t, c)

\* faulty variant: of equal frequencies the row read last comes first
InsertSortedLastFirst(s, r) ==
    LET k == Cardinality({i \in 1..Len(s) : s[i].n > r.n})
    IN SubSeq(s, 1, k) \o <<r>> \o SubSeq(s, k + 1, Len(s))

(***************************************************************************)
(* SELECT ... ORDER BY frequency DESC: rows of equal frequency come out    *)
(* in rowid order (SQLite's sorter keeps the scan order of ties).          *)
(***************************************************************************)
InsertSorted(s, r) ==
    LET k == Cardinality({i \in 1..Len(s) : s[i].n >= r.n})
    IN SubSeq(s, 1, k) \o <<r>> \o SubSeq(s, k + 1, Len(s))

RECURSIVE OrderByFrequencyDesc(_)
OrderByFrequencyDesc(tab) ==
    IF tab = <<>> THEN <<>>
    ELSE InsertSorted(OrderByFrequencyDesc(SubSeq(tab, 1, Len(tab) - 1)), tab[Len(tab)])

\* all_cols[:3]
TopThree(all) == SubSeq(all, 1, Min2(TopN, Len(all)))

\* faulty variant: a window of five
BottomFive(all) == SubSeq(all, Max2(1, Len(all) - BottomM + 2), Len(all))

\* all_cols[-6:]
BottomSix(all) == SubSeq(all, Max2(1, Len(all) - BottomM + 1), Len(all))

\* index_name = f"idx_{table_name}_{column_name}"
IndexName(t, c) == "idx_" \o t \o "_" \o c

\* CREATE INDEX ... ON table (column) is accepted only for a column of the schema
Indexable(t, c) == c \in DeclaredCols(t)

(***************************************************************************)
(* State.                                                                  *)
(***************************************************************************)
VARIABLES
    mode,       \* "backend" or "app": which deployment runs
    freq,       \* committed rows of attribute_frequency, in rowid order
    catalog,    \* committed index names (sqlite_master)
    wlock,      \* "free", or the connection holding the database write lock
    txn,        \* per connection: its open transaction (pending table and catalog)
    rec,        \* per caller: where it stands in update_frequency_counter
    adv,        \* the index-manager thread: where it stands in auto_manage_indexes
    base,       \* history: the frequency table the run started from
    done,       \* history: per key, record calls that returned after their commit
    erred,      \* history: some statement has raised a store error
    loop,       \* the execution loop: where it stands in tick and in execute
    gen,        \* the query_gen.py process: queue, log buffer, log file, threads
    rot,        \* the focus rotator: the two column cycles and the current focus
    xtr,        \* the column extractor: a statement and what is extracted from it
    watch       \* the status file and the watcher's reading of it

vars == <<mode, freq, catalog, wlock, txn, rec, adv, base, done, erred, loop, gen, rot, xtr, watch>>

\* the loops that take no part in a step
Quiet == UNCHANGED <<loop, gen, rot, xtr, watch>>

NoLoop == [pc |-> "off"]
NoGen == [main |-> "off"]
NoRot == [k |-> 0]
NoXtr == [sql |-> <<>>]
NoWatch == [now |-> 0]

Callers == {"w1", "w2"}
Handles == {"h", "adv"} \cup Callers

\* the connection a thread of the process works on
HandleOf(p) == IF mode = "backend" THEN "h" ELSE p

\* the callers a deployment has: the backend's tick thread is alone on its
\* DBManager; app.py's callers are the processes sharing the database file
CallersOf(m) == IF m = "backend" THEN {"w1"} ELSE Callers

NoTxn == [open |-> FALSE, tab |-> <<>>, cat |-> {}]

\* what the statements of this module see and change, as one value
World == [freq |-> freq, catalog |-> catalog, wlock |-> wlock, txn |-> txn, adv |-> adv]

\* what a connection reads: its own pending changes, else the committed state
ViewFreq(s, h) == IF s.txn[h].open THEN s.txn[h].tab ELSE s.freq
ViewCat(s, h) == IF s.txn[h].open THEN s.txn[h].cat ELSE s.catalog

\* a statement that writes gets the write lock, or fails with "database is locked"
CanWrite(s, h) == s.txn[h].open \/ s.wlock = "free"

\* conn.commit()
CommitTxn(s, h) ==
    IF s.txn[h].open
    THEN [s EXCEPT !.freq = s.txn[h].tab, !.catalog = s.txn[h].cat,
                   !.wlock = "free", !.txn[h] = NoTxn]
    ELSE s

\* the connection is dropped with its transaction open: rollback
RollbackTxn(s, h) ==
    IF s.txn[h].open THEN [s EXCEPT !.wlock = "free", !.txn[h] = NoTxn] ELSE s

\* DDL runs inside the connection's open transaction, else in autocommit
StoreCreateIndex(s, h, name) ==
    IF s.txn[h].open THEN [s EXCEPT !.txn[h].cat = @ \cup {name}]
    ELSE [s EXCEPT !.catalog = @ \cup {name}]

\* faulty variant: the unique index of the frequency table goes with it
StoreDropAlsoUnique(s, h, name) ==
    IF s.txn[h].open THEN [s EXCEPT !.txn[h].cat = @ \ {name, UniqueIdx}]
    ELSE [s EXCEPT !.catalog = @ \ {name, UniqueIdx}]

StoreDropIndex(s, h, name) ==
    IF s.txn[h].open THEN [s EXCEPT !.txn[h].cat = @ \ {name}]
    ELSE [s EXCEPT !.catalog = @ \ {name}]

(***************************************************************************)
(* Index advisor: auto_manage_indexes.                                     *)
(***************************************************************************)
IdleAdv ==
    [pc |-> "idle", all |-> <<>>, existing |-> {}, cat0 |-> {}, i |-> 0,
     created |-> {}, dropped |-> {}, failed |-> {}, ran |-> FALSE]

\* faulty variant: the length test off by one
TooFewRowsOffByOne(all) == Len(all) < MinRows - 1

\* if len(all_cols) < 3
TooFewRows(all) == Len(all) < MinRows

\* faulty variant: CREATE issued whatever the catalog holds
PromoteAlways(name, existing, live) == TRUE

\* if index_name not in existing_indexes
PromoteNeeded(name, existing, live) == name \notin existing

\* faulty variant: the test made against the live catalog, not the snapshot
EvictNeededLive(name, existing, live) == name \in live

\* if index_name in existing_indexes
EvictNeeded(name, existing, live) == name \in existing

\* the two SELECTs, the length test and the two slices
AdvBegin(s) ==
    LET h == HandleOf("adv")
        all == OrderByFrequencyDesc(ViewFreq(s, h))
        a0 == [IdleAdv EXCEPT !.all = all, !.cat0 = ViewCat(s, h), !.i = 1]
    IN IF TooFewRows(all)
       THEN [s EXCEPT !.adv = [a0 EXCEPT !.ran = TRUE]]
       ELSE [s EXCEPT !.adv = [a0 EXCEPT !.pc = "create", !.existing = ViewCat(s, h)]]

\* faulty variant: a CREATE that fails ends the cycle where it is
AdvCreateAbort(s) ==
    LET h == HandleOf("adv")
        top == TopThree(s.adv.all)
        r == top[s.adv.i]
        name == IndexName(r.t, r.c)
        wanted == PromoteNeeded(name, s.adv.existing, ViewCat(s, h))
        fails == wanted /\ ~(Indexable(r.t, r.c) /\ CanWrite(s, h))
        s1 == IF ~wanted THEN s
              ELSE IF ~fails
                   THEN [StoreCreateIndex(s, h, name) EXCEPT !.adv.created = @ \cup {name}]
                   ELSE [s EXCEPT !.adv.created = @ \cup {name},
                                  !.adv.failed = @ \cup {name}]
    IN IF fails THEN [s1 EXCEPT !.adv.pc = "idle", !.adv.ran = TRUE]
       ELSE IF s.adv.i < Len(top)
       THEN [s1 EXCEPT !.adv.i = @ + 1]
       ELSE [s1 EXCEPT !.adv.i = 1, !.adv.pc = "drop"]

\* one iteration of "for table_name, column_name, _ in top_three"
AdvCreate(s) ==
    LET h == HandleOf("adv")
        top == TopThree(s.adv.all)
        r == top[s.adv.i]
        name == IndexName(r.t, r.c)
        s1 == IF ~PromoteNeeded(name, s.adv.existing, ViewCat(s, h)) THEN s
              ELSE IF Indexable(r.t, r.c) /\ CanWrite(s, h)
                   THEN [StoreCreateIndex(s, h, name) EXCEPT !.adv.created = @ \cup {name}]
                   ELSE [s EXCEPT !.adv.created = @ \cup {name},
                                  !.adv.failed = @ \cup {name}]
    IN IF s.adv.i < Len(top)
       THEN [s1 EXCEPT !.adv.i = @ + 1]
       ELSE [s1 EXCEPT !.adv.i = 1, !.adv.pc = "drop"]

\* one iteration of "for table_name, column_name, _ in bottom_six"
AdvDrop(s) ==
    LET h == HandleOf("adv")
        bottom == BottomSix(s.adv.all)
        r == bottom[s.adv.i]
        name == IndexName(r.t, r.c)
        s1 == IF ~EvictNeeded(name, s.adv.existing, ViewCat(s, h)) THEN s
              ELSE IF CanWrite(s, h)
                   THEN [StoreDropIndex(s, h, name) EXCEPT !.adv.dropped = @ \cup {name}]
                   ELSE [s EXCEPT !.adv.dropped = @ \cup {name},
                                  !.adv.failed = @ \cup {name}]
    IN IF s.adv.i < Len(bottom)
       THEN [s1 EXCEPT !.adv.i = @ + 1]
       ELSE [s1 EXCEPT !.adv.i = 0, !.adv.pc = "commit"]

\* faulty variant: the cycle ends with a rollback of the connection
AdvRollback(s) ==
    [RollbackTxn(s, HandleOf("adv")) EXCEPT !.adv.pc = "idle", !.adv.ran = TRUE]

\* self._conn.commit() at the end of the cycle
AdvCommit(s) ==
    [CommitTxn(s, HandleOf("adv")) EXCEPT !.adv.pc = "idle", !.adv.ran = TRUE]

\* the next statement of the cycle
AdvStep(s) ==
    CASE s.adv.pc = "idle" -> AdvBegin(s)
      [] s.adv.pc = "create" -> AdvCreate(s)
      [] s.adv.pc = "drop" -> AdvDrop(s)
      [] s.adv.pc = "commit" -> AdvCommit(s)

\* a whole cycle, from the first SELECT to the return
RECURSIVE AdvRunFrom(_)
AdvRunFrom(s0) ==
    CHOOSE r \in {IF s.adv.pc = "idle" THEN s ELSE AdvRunFrom(AdvStep(s)) : s \in {s0}} : TRUE

AdvRun(s) == AdvRunFrom(AdvBegin(s))

SetWorld(s) ==
    /\ freq' = s.freq
    /\ catalog' = s.catalog
    /\ wlock' = s.wlock
    /\ txn' = s.txn
    /\ adv' = s.adv

\* auto_manage_indexes() running alone on the store
Reconcile ==
    /\ adv.pc = "idle"
    /\ SetWorld(AdvRun(World))
    /\ UNCHANGED <<mode, rec, base, done, erred>>

(***************************************************************************)
(* The advisor alone, started on any frequency table of the family below   *)
(* and on any of the catalogs below.                                       *)
(***************************************************************************)
KeyOrder ==
    << <<"orders", "status">>, <<"orders", "amount">>, <<"customers", "'delhi'">>,
       <<"customers", "city">>, <<"customers", "email">>, <<"orders", "id">>,
       <<"customers", "id">>, <<"customers", "name">>, <<"orders", "customer_id">> >>

\* the scenario of the specification
SeedTable ==
    << Row("orders", "status", 50), Row("orders", "amount", 40),
       Row("customers", "city", 35), Row("customers", "email", 2),
       Row("orders", "id", 1), Row("customers", "id", 1), Row("customers", "name", 1) >>

TableOf(fs) == [i \in 1..Len(fs) |-> Row(KeyOrder[i][1], KeyOrder[i][2], fs[i])]

AdvisorNames(tab) ==
    {IndexName(tab[i].t, tab[i].c) : i \in {j \in 1..Len(tab) : Indexable(tab[j].t, tab[j].c)}}

NamesOn(tab, t) == {IndexName(tab[i].t, tab[i].c) :
                      i \in {j \in 1..Len(tab) : tab[j].t = t /\ Indexable(t, tab[j].c)}}

InitCatalogs(tab) ==
    {{UniqueIdx} \cup x : x \in {{}, AdvisorNames(TableOf([i \in 1..Len(KeyOrder) |-> 1])),
                                 NamesOn(tab, "customers"), NamesOn(tab, "orders")}}

IdleRec ==
    [pc |-> "idle", attempt |-> 0, t |-> "", cols |-> {}, todo |-> {}, ncalls |-> 0,
     committed |-> FALSE, raised |-> FALSE]

InitAdvisor ==
    /\ mode = "backend"
    /\ \/ freq = SeedTable
       \/ \E n \in 0..Len(KeyOrder) : \E fs \in [1..n -> 1..MaxFreq] : freq = TableOf(fs)
    /\ catalog \in InitCatalogs(freq)
    /\ wlock = "free"
    /\ txn = [h \in Handles |-> NoTxn]
    /\ rec = [w \in Callers |-> IdleRec]
    /\ adv = IdleAdv
    /\ base = freq
    /\ done = <<>>
    /\ erred = FALSE
    /\ loop = NoLoop
    /\ gen = NoGen
    /\ xtr = NoXtr
    /\ watch = NoWatch
    /\ rot = NoRot

NextAdvisor == Reconcile /\ Quiet

SpecAdvisor == InitAdvisor /\ [][NextAdvisor]_vars

(***************************************************************************)
(* Frequency tracker: update_frequency_counter.                            *)
(***************************************************************************)
\* (table, columns) as extracted from the statements the callers record
Workload ==
    { [t |-> "customers", cols |-> {"city", "id"}],
      [t |-> "orders", cols |-> {"status"}],
      [t |-> "unknown", cols |-> {}] }

StartOrder == << <<"orders", "status">>, <<"customers", "id">>, <<"customers", "city">> >>

\* the tables the tracker is started on: empty, or rows of earlier runs
StartTables ==
    {[i \in 1..n |-> Row(StartOrder[i][1], StartOrder[i][2], i + 1)] :
        n \in 0..Min2(MaxInitRows, Len(StartOrder))}

WorkKeys == {<<StartOrder[i][1], StartOrder[i][2]>> : i \in 1..Len(StartOrder)}
            \cup UNION {{<<q.t, c>> : c \in q.cols} : q \in Workload}

KeysOfCall(r) == {<<r.t, c>> : c \in r.cols}

Bump(f, ks) == [k \in DOMAIN f |-> IF k \in ks THEN f[k] + 1 ELSE f[k]]

\* faulty variant: the table name is not looked at
NoColumns(q) == q.cols = {}

\* if not cols or table_name == "unknown": return
NothingToRecord(q) == q.cols = {} \/ q.t = "unknown"

\* faulty variant: one attempt too many
MayRetryOnceMore(attempt) == attempt < MaxRetries

\* for attempt in range(max_retries) ... attempt < max_retries - 1
MayRetry(attempt) == attempt < MaxRetries - 1

\* the call is entered with the table and columns of one statement; limit
\* bounds the calls a caller makes
RecEnter(w, q, limit) ==
    /\ w \in CallersOf(mode)
    /\ rec[w].pc = "idle"
    /\ rec[w].ncalls < limit
    /\ IF NothingToRecord(q)
       THEN rec' = [rec EXCEPT ![w] = [IdleRec EXCEPT !.ncalls = rec[w].ncalls + 1]]
       ELSE rec' = [rec EXCEPT ![w] = [pc |-> IF mode = "app" THEN "conn" ELSE "cols",
                                       attempt |-> 0, t |-> q.t, cols |-> q.cols,
                                       todo |-> q.cols, ncalls |-> @.ncalls + 1,
                                       committed |-> FALSE, raised |-> FALSE]]
    /\ UNCHANGED <<mode, freq, catalog, wlock, txn, adv, base, done, erred>>

RecStart(w, q) == RecEnter(w, q, MaxCalls)

\* app.py: sqlite3.connect, then CREATE UNIQUE INDEX IF NOT EXISTS idx_freq_unique
\* in autocommit, its failure swallowed
RecConnect(w) ==
    /\ rec[w].pc = "conn"
    /\ catalog' = IF UniqueIdx \notin catalog /\ wlock = "free"
                  THEN catalog \cup {UniqueIdx} ELSE catalog
    /\ rec' = [rec EXCEPT ![w].pc = "cols"]
    /\ UNCHANGED <<mode, freq, wlock, txn, adv, base, done, erred>>

\* one iteration of "for col in cols": the UPDATE and, on rowcount 0, the INSERT,
\* in the connection's transaction (opened, with the write lock, by the first one)
RecColumn(w, c) ==
    LET h == HandleOf(w) IN
    /\ rec[w].pc = "cols"
    /\ c \in rec[w].todo
    /\ CanWrite(World, h)
    /\ txn' = [txn EXCEPT ![h] = [open |-> TRUE,
                                  tab |-> UpdateOrInsert(ViewFreq(World, h), rec[w].t, c),
                                  cat |-> ViewCat(World, h)]]
    /\ wlock' = h
    /\ rec' = [rec EXCEPT ![w].todo = @ \ {c}]
    /\ UNCHANGED <<mode, freq, catalog, adv, base, done, erred>>

\* the statement raises "database is locked".  app.py drops the connection
\* (rollback) and runs the span again while attempts remain, and returns when
\* none does; in the backend the exception leaves update_frequency_counter
\* (raised), the shared connection stays as it is
RecLocked(w) ==
    LET h == HandleOf(w)
        s1 == IF mode = "app" THEN RollbackTxn(World, h) ELSE World
        again == mode = "app" /\ MayRetry(rec[w].attempt)
    IN
    /\ rec[w].pc = "cols"
    /\ rec[w].todo # {}
    /\ ~CanWrite(World, h)
    /\ txn' = s1.txn
    /\ wlock' = s1.wlock
    /\ rec' = [rec EXCEPT ![w] = IF again
                                 THEN [@ EXCEPT !.pc = "conn", !.attempt = @ + 1,
                                                !.todo = rec[w].cols]
                                 ELSE [@ EXCEPT !.pc = "idle", !.todo = {},
                                                !.raised = (mode = "backend")]]
    /\ erred' = TRUE
    /\ UNCHANGED <<mode, freq, catalog, adv, base, done>>

\* conn.commit() after the loop, and the return
RecCommit(w) ==
    LET s1 == CommitTxn(World, HandleOf(w)) IN
    /\ rec[w].pc = "cols"
    /\ rec[w].todo = {}
    /\ SetWorld(s1)
    /\ rec' = [rec EXCEPT ![w].pc = "idle", ![w].committed = TRUE]
    /\ done' = Bump(done, KeysOfCall(rec[w]))
    /\ UNCHANGED <<mode, base, erred>>

(***************************************************************************)
(* Another connection on the database file (the handle that executes the   *)
(* generated statements, another process) takes and releases the lock.     *)
(***************************************************************************)
ExtAcquire ==
    /\ wlock = "free"
    /\ wlock' = "ext"
    /\ UNCHANGED <<mode, freq, catalog, txn, rec, adv, base, done, erred>>

ExtRelease ==
    /\ wlock = "ext"
    /\ wlock' = "free"
    /\ UNCHANGED <<mode, freq, catalog, txn, rec, adv, base, done, erred>>

Init ==
    /\ mode \in {"backend", "app"}
    /\ freq \in StartTables
    /\ catalog = IF mode = "backend" THEN {UniqueIdx} ELSE {}
    /\ wlock = "free"
    /\ txn = [h \in Handles |-> NoTxn]
    /\ rec = [w \in Callers |-> IdleRec]
    /\ adv = IdleAdv
    /\ base = freq
    /\ done = [k \in WorkKeys |-> 0]
    /\ erred = FALSE
    /\ loop = NoLoop
    /\ gen = NoGen
    /\ xtr = NoXtr
    /\ watch = NoWatch
    /\ rot = NoRot

Next ==
    \/ \E w \in Callers, q \in Workload : RecStart(w, q) /\ Quiet
    \/ \E w \in Callers : RecConnect(w) /\ Quiet
    \/ \E w \in Callers, c \in DeclaredCols("customers") \cup DeclaredCols("orders") :
          RecColumn(w, c) /\ Quiet
    \/ \E w \in Callers : RecLocked(w) /\ Quiet
    \/ \E w \in Callers : RecCommit(w) /\ Quiet
    \/ ExtAcquire /\ Quiet
    \/ ExtRelease /\ Quiet
    \/ Reconcile /\ Quiet

Spec == Init /\ [][Next]_vars

(***************************************************************************)
(* The two threads of a deployment on the store: the simulator thread,     *)
(* whose ticks call update_frequency_counter, and the index manager        *)
(* thread, whose cycle runs statement by statement between the statements  *)
(* of a record call.  In the backend both work on the connection of the    *)
(* DBManager; in app.py each call opens its own.                           *)
(***************************************************************************)
MaxSharedCalls == 2     \* record calls made while the cycles run

SharedCaller == "w1"

\* tables on which one record call changes the three highest rows
SharedTables ==
    { << Row("orders", "amount", 3), Row("customers", "email", 3),
         Row("orders", "status", 2), Row("customers", "city", 2),
         Row("customers", "id", 2), Row("orders", "id", 1),
         Row("customers", "name", 1) >>,
      << Row("orders", "amount", 2), Row("orders", "status", 1),
         Row("customers", "email", 1), Row("customers", "city", 1) >> }

\* one statement of auto_manage_indexes()
ReconcileStep ==
    /\ SetWorld(AdvStep(World))
    /\ UNCHANGED <<mode, rec, base, done, erred>>

InitShared ==
    /\ mode \in {"backend", "app"}
    /\ freq \in SharedTables
    /\ catalog \in {{UniqueIdx}, {UniqueIdx} \cup NamesOn(freq, "customers"),
                    {UniqueIdx} \cup NamesOn(freq, "orders")}
    /\ wlock = "free"
    /\ txn = [h \in Handles |-> NoTxn]
    /\ rec = [w \in Callers |-> IdleRec]
    /\ adv = IdleAdv
    /\ base = freq
    /\ done = [k \in WorkKeys |-> 0]
    /\ erred = FALSE
    /\ loop = NoLoop
    /\ gen = NoGen
    /\ rot = NoRot
    /\ xtr = NoXtr
    /\ watch = NoWatch

NextShared ==
    \/ \E q \in Workload : RecEnter(SharedCaller, q, MaxSharedCalls) /\ Quiet
    \/ RecConnect(SharedCaller) /\ Quiet
    \/ \E c \in DeclaredCols("customers") \cup DeclaredCols("orders") :
          RecColumn(SharedCaller, c) /\ Quiet
    \/ RecCommit(SharedCaller) /\ Quiet
    \/ ReconcileStep /\ Quiet

SpecShared == InitShared /\ [][NextShared]_vars

(***************************************************************************)
(* Execution loop: one tick generates a statement, executes it, forwards   *)
(* the rendered SQL to the tracker, appends the log entry and writes the   *)
(* heartbeat (MetricsSimulator.tick with DBManager.execute in the backend, *)
(* _RealtimeState.tick in app.py).                                         *)
(***************************************************************************)
MaxTicks == 2       \* iterations of the execution loop

ExecRetries == 3    \* def execute(..., retries: int = 3, ...)

\* what the generator hands over: the table and columns that extraction finds
\* in the rendered SQL, whether the statement writes, and whether the store
\* rejects it (UPDATE customers SET id = 'Update123': datatype mismatch)
Statements ==
    { [t |-> "customers", cols |-> {"city"}, write |-> FALSE, bad |-> FALSE],
      [t |-> "customers", cols |-> {"id"}, write |-> TRUE, bad |-> TRUE],
      [t |-> "orders", cols |-> {"status"}, write |-> TRUE, bad |-> FALSE],
      [t |-> "customers", cols |-> {}, write |-> FALSE, bad |-> FALSE],
      [t |-> "unknown", cols |-> {"id"}, write |-> FALSE, bad |-> FALSE] }

IdleLoop ==
    [pc |-> "idle", n |-> 0, q |-> [t |-> "", cols |-> {}, write |-> FALSE, bad |-> FALSE],
     tried |-> 0, waits |-> <<>>, last |-> "", ok |-> FALSE,
     fwd |-> 0, logged |-> 0, beats |-> 0, freq0 |-> <<>>]

\* faulty variant: the frequency update left out of the tick
TickOrderNoForward == <<"exec", "log", "beat">>

\* the statements of the tick body, in order; none is conditional on the
\* outcome of the execution
TickOrder == <<"exec", "forward", "log", "beat">>

\* the step after step pc, "idle" after the last
After(pc) ==
    LET i == CHOOSE j \in 1..Len(TickOrder) : TickOrder[j] = pc
    IN IF i < Len(TickOrder) THEN TickOrder[i + 1] ELSE "idle"

Advance(l) ==
    [l EXCEPT !.pc = After(l.pc), !.n = IF After(l.pc) = "idle" THEN @ + 1 ELSE @]

\* the tick thread is the tracker's caller w1; its statements run on the
\* connection of the loop
LoopCaller == "w1"
LoopHandle == "h"

\* cur.execute(sql, params): a writing statement needs the write lock
ExecOutcome(s, q, h) ==
    IF q.write /\ ~CanWrite(s, h) THEN "locked"
    ELSE IF q.bad THEN "error"
    ELSE "ok"

\* faulty variant: one attempt too many
ExecRetryOnceMore(m, attempt) == m = "backend" /\ attempt < ExecRetries

\* DBManager.execute: if "locked" in str(e).lower() and attempt < retries - 1;
\* app.py's tick makes one attempt
ExecRetry(m, attempt) == m = "backend" /\ attempt < ExecRetries - 1

\* sql, params = generate(): an iteration begins. MetricsSimulator is handed
\* its generator, so its tick takes whatever statement generate() returns;
\* app.py's tick calls generate_gaurav_query, every statement of which names
\* a table and a column
TickBegin(q) ==
    /\ loop.pc = "idle"
    /\ loop.n < MaxTicks
    /\ mode = "app" => ~NothingToRecord(q)
    /\ loop' = [IdleLoop EXCEPT !.pc = TickOrder[1], !.n = loop.n, !.q = q, !.freq0 = freq]
    /\ rec' = [rec EXCEPT ![LoopCaller] = IdleRec]
    /\ UNCHANGED <<mode, freq, catalog, wlock, txn, adv, base, done, erred, gen, rot, xtr, watch>>

\* one attempt of the execution: cur.execute and commit; on "locked" with
\* attempts left, time.sleep(delay * (attempt + 1)) and the next attempt; else
\* the exception, which tick swallows
TickExec ==
    LET out == ExecOutcome(World, loop.q, LoopHandle)
        l1 == [loop EXCEPT !.tried = @ + 1, !.last = out]
    IN
    /\ loop.pc = "exec"
    /\ IF out = "ok"
       THEN /\ SetWorld(CommitTxn(World, LoopHandle))
            /\ loop' = Advance([l1 EXCEPT !.ok = TRUE])
       ELSE /\ UNCHANGED <<freq, catalog, wlock, txn, adv>>
            /\ loop' = IF out = "locked" /\ ExecRetry(mode, loop.tried)
                       THEN [l1 EXCEPT !.waits = Append(@, loop.tried + 1)]
                       ELSE Advance(l1)
    /\ UNCHANGED <<mode, rec, base, done, erred, gen, rot, xtr, watch>>

\* update_frequency_counter(formatted_sql) is called
TickForward ==
    /\ loop.pc = "forward"
    /\ RecStart(LoopCaller, loop.q)
    /\ loop' = Advance([loop EXCEPT !.fwd = @ + 1])
    /\ UNCHANGED <<gen, rot, xtr, watch>>

\* the call has returned or raised: the entry is appended to the query log
TickLog ==
    /\ loop.pc = "log"
    /\ rec[LoopCaller].pc = "idle"
    /\ loop' = Advance([loop EXCEPT !.logged = @ + 1])
    /\ UNCHANGED <<mode, freq, catalog, wlock, txn, rec, adv, base, done, erred, gen, rot, xtr, watch>>

\* the status file is written
TickBeat ==
    /\ loop.pc = "beat"
    /\ rec[LoopCaller].pc = "idle"
    /\ loop' = Advance([loop EXCEPT !.beats = @ + 1])
    /\ UNCHANGED <<mode, freq, catalog, wlock, txn, rec, adv, base, done, erred, gen, rot, xtr, watch>>

InitLoop ==
    /\ mode \in {"backend", "app"}
    /\ freq \in StartTables
    /\ catalog = IF mode = "backend" THEN {UniqueIdx} ELSE {}
    /\ wlock = "free"
    /\ txn = [h \in Handles |-> NoTxn]
    /\ rec = [w \in Callers |-> IdleRec]
    /\ adv = IdleAdv
    /\ base = freq
    /\ done = [k \in WorkKeys |-> 0]
    /\ erred = FALSE
    /\ loop = IdleLoop
    /\ gen = NoGen
    /\ xtr = NoXtr
    /\ watch = NoWatch
    /\ rot = NoRot

NextLoop ==
    \/ \E q \in Statements : TickBegin(q)
    \/ TickExec
    \/ TickForward
    \/ TickLog
    \/ TickBeat
    \/ RecConnect(LoopCaller) /\ Quiet
    \/ \E c \in DeclaredCols("customers") \cup DeclaredCols("orders") :
          RecColumn(LoopCaller, c) /\ Quiet
    \/ RecLocked(LoopCaller) /\ Quiet
    \/ RecCommit(LoopCaller) /\ Quiet
    \/ ExtAcquire /\ Quiet
    \/ ExtRelease /\ Quiet

SpecLoop == InitLoop /\ [][NextLoop]_vars

(***************************************************************************)
(* query_gen.py: main puts generated statements on a queue; db_worker      *)
(* executes them and appends their entries to log_buffer; flusher moves    *)
(* the buffer to the log file; a signal sets stop_event and main shuts     *)
(* down.  A statement is the number of its put.                            *)
(***************************************************************************)
MaxPuts == 2        \* statements main puts on the queue

\* the threads have been started (main, lines 318-320)
StartGen ==
    [main |-> "check", stop |-> FALSE, queue |-> <<>>, putn |-> 0, unfinished |-> 0,
     worker |-> "top", cur |-> 0, executed |-> {}, buffer |-> <<>>,
     flusher |-> "check", file |-> <<>>, tdone |-> 0]

\* signal_handler: stop_event.set()
GenSignal ==
    /\ gen.main \in {"check", "put", "join"}
    /\ ~gen.stop
    /\ gen' = [gen EXCEPT !.stop = TRUE]
    /\ UNCHANGED <<mode, freq, catalog, wlock, txn, rec, adv, base, done, erred, loop, rot, xtr, watch>>

\* main: while not stop_event.is_set()
MainCheck ==
    /\ gen.main = "check"
    /\ gen.stop \/ gen.putn < MaxPuts
    /\ gen' = [gen EXCEPT !.main = IF gen.stop THEN "join" ELSE "put"]
    /\ UNCHANGED <<mode, freq, catalog, wlock, txn, rec, adv, base, done, erred, loop, rot, xtr, watch>>

\* main: q.put(generate_query()); Queue.put counts the unfinished task
MainPut ==
    /\ gen.main = "put"
    /\ gen' = [gen EXCEPT !.main = "check", !.putn = @ + 1,
                          !.queue = Append(@, gen.putn + 1), !.unfinished = @ + 1]
    /\ UNCHANGED <<mode, freq, catalog, wlock, txn, rec, adv, base, done, erred, loop, rot, xtr, watch>>

\* main: q.join() returns when no task is unfinished
MainJoin ==
    /\ gen.main = "join"
    /\ gen.unfinished = 0
    /\ gen' = [gen EXCEPT !.main = "sleep"]
    /\ UNCHANGED <<mode, freq, catalog, wlock, txn, rec, adv, base, done, erred, loop, rot, xtr, watch>>

\* main: time.sleep(FLUSH_INTERVAL + 0.2), then "STOP" is written.  stop_event
\* was set before the sleep, so within FLUSH_INTERVAL the flusher has ended
\* its own sleep, flushed and left its loop
MainStop ==
    /\ gen.main = "sleep"
    /\ gen.flusher = "exited"
    /\ gen' = [gen EXCEPT !.main = "stopped"]
    /\ UNCHANGED <<mode, freq, catalog, wlock, txn, rec, adv, base, done, erred, loop, rot, xtr, watch>>

\* main: time.sleep(0.3); os.remove(STATUS_FILE); main returns
MainRemove ==
    /\ gen.main = "stopped"
    /\ gen' = [gen EXCEPT !.main = "removed"]
    /\ UNCHANGED <<mode, freq, catalog, wlock, txn, rec, adv, base, done, erred, loop, rot, xtr, watch>>

\* db_worker: while not stop_event.is_set() or not q.empty()
WorkerTop ==
    /\ gen.worker = "top"
    /\ gen' = [gen EXCEPT !.worker = IF ~gen.stop \/ gen.queue # <<>> THEN "get" ELSE "exited"]
    /\ UNCHANGED <<mode, freq, catalog, wlock, txn, rec, adv, base, done, erred, loop, rot, xtr, watch>>

\* db_worker: sql, params = q.get(timeout=0.1) returns an item
WorkerGet ==
    /\ gen.worker = "get"
    /\ gen.queue # <<>>
    /\ gen' = [gen EXCEPT !.worker = "run", !.cur = Head(gen.queue), !.queue = Tail(@)]
    /\ UNCHANGED <<mode, freq, catalog, wlock, txn, rec, adv, base, done, erred, loop, rot, xtr, watch>>

\* db_worker: cur.execute and commit, or the error printed; then the finally
\* block: the entry is appended to log_buffer and q.task_done(), which raises
\* ValueError and ends the thread when a call after a timeout has already
\* counted the task down
WorkerRun ==
    /\ gen.worker = "run"
    /\ gen' = [gen EXCEPT !.worker = IF gen.unfinished = 0 THEN "dead" ELSE "top",
                          !.executed = @ \cup {gen.cur},
                          !.buffer = Append(@, gen.cur),
                          !.unfinished = IF @ = 0 THEN 0 ELSE @ - 1,
                          !.tdone = @ + 1]
    /\ UNCHANGED <<mode, freq, catalog, wlock, txn, rec, adv, base, done, erred, loop, rot, xtr, watch>>

\* db_worker: q.get(timeout=0.1) times out on the empty queue: queue.Empty is
\* raised and "except queue.Empty: continue" is entered
WorkerEmpty ==
    /\ gen.worker = "get"
    /\ gen.queue = <<>>
    /\ gen' = [gen EXCEPT !.worker = "finally"]
    /\ UNCHANGED <<mode, freq, catalog, wlock, txn, rec, adv, base, done, erred, loop, rot, xtr, watch>>

\* db_worker: the finally block runs before the continue takes effect: with
\* sql unbound its f-string raises UnboundLocalError; else the entry of the
\* last statement is appended again and q.task_done() is called, which
\* raises ValueError when no task is unfinished and else counts down a task
\* that main has put since the timeout.  Nothing catches the exceptions: the
\* thread ends
WorkerFinally ==
    /\ gen.worker = "finally"
    /\ gen' = IF gen.cur = 0
              THEN [gen EXCEPT !.worker = "dead"]
              ELSE IF gen.unfinished = 0
              THEN [gen EXCEPT !.worker = "dead", !.buffer = Append(@, gen.cur),
                               !.tdone = @ + 1]
              ELSE [gen EXCEPT !.worker = "top", !.buffer = Append(@, gen.cur),
                               !.unfinished = @ - 1, !.tdone = @ + 1]
    /\ UNCHANGED <<mode, freq, catalog, wlock, txn, rec, adv, base, done, erred, loop, rot, xtr, watch>>

\* flusher: while not stop_event.is_set()
FlusherCheck ==
    /\ gen.flusher = "check"
    /\ gen' = [gen EXCEPT !.flusher = IF gen.stop THEN "exited" ELSE "sleep"]
    /\ UNCHANGED <<mode, freq, catalog, wlock, txn, rec, adv, base, done, erred, loop, rot, xtr, watch>>

\* flusher: after time.sleep(FLUSH_INTERVAL) the buffer is written to the log
\* file and cleared
FlusherFlush ==
    /\ gen.flusher = "sleep"
    /\ gen' = [gen EXCEPT !.flusher = "check", !.file = @ \o gen.buffer, !.buffer = <<>>]
    /\ UNCHANGED <<mode, freq, catalog, wlock, txn, rec, adv, base, done, erred, loop, rot, xtr, watch>>

InitGen ==
    /\ mode = "app"
    /\ freq = <<>>
    /\ catalog = {}
    /\ wlock = "free"
    /\ txn = [h \in Handles |-> NoTxn]
    /\ rec = [w \in Callers |-> IdleRec]
    /\ adv = IdleAdv
    /\ base = freq
    /\ done = [k \in WorkKeys |-> 0]
    /\ erred = FALSE
    /\ loop = NoLoop
    /\ gen = StartGen
    /\ xtr = NoXtr
    /\ watch = NoWatch
    /\ rot = NoRot

NextGen ==
    \/ GenSignal
    \/ MainCheck
    \/ MainPut
    \/ MainJoin
    \/ MainStop
    \/ MainRemove
    \/ WorkerTop
    \/ WorkerGet
    \/ WorkerRun
    \/ WorkerEmpty
    \/ WorkerFinally
    \/ FlusherCheck
    \/ FlusherFlush

SpecGen == InitGen /\ [][NextGen]_vars

\* the steps of each thread
MainThread == MainCheck \/ MainPut \/ MainJoin \/ MainStop \/ MainRemove
WorkerThread == WorkerTop \/ WorkerGet \/ WorkerRun \/ WorkerEmpty \/ WorkerFinally
FlusherThread == FlusherCheck \/ FlusherFlush

\* the interpreter schedules every thread that can take a step: its timeouts
\* and sleeps end, and a thread that is not blocked runs again.  The signal
\* comes from outside and is not owed
SpecGenFair ==
    /\ SpecGen
    /\ WF_vars(MainThread)
    /\ WF_vars(WorkerThread)
    /\ WF_vars(FlusherThread)

(***************************************************************************)
(* Focus rotator: rotate_focus_once / rotate_focus.                        *)
(***************************************************************************)
MaxCycle == 5       \* length of a cycle list
MaxRotations == 11  \* rotations of one run

CUSTOMER_COLS == <<"name", "email", "city", "join_date", "id">>
ORDER_COLS == <<"customer_id", "order_date", "amount", "status", "id">>

\* cycle[:n] and cycle[n:]
Upto(cycle, n) == SubSeq(cycle, 1, Min2(n, Len(cycle)))
From(cycle, n) == SubSeq(cycle, n + 1, Len(cycle))

\* faulty variant: two columns moved to the end
RotateByTwo(cycle) == From(cycle, 2) \o Upto(cycle, 2)

\* faulty variant: the head is not put back at the end
RotateDropHead(cycle) == From(cycle, 1)

\* faulty variant: the last column moved to the front
RotateBack(cycle) == From(cycle, Len(cycle) - 1) \o Upto(cycle, Len(cycle) - 1)

\* cycle = cycle[1:] + cycle[:1]
RotateOnce(cycle) == From(cycle, 1) \o Upto(cycle, 1)

\* {"most": cycle[0], "least": cycle[-1]}
FocusOf(cycle) == [most |-> cycle[1], least |-> cycle[Len(cycle)]]

\* no statement generated yet
NoStmt == [type |-> "", table |-> "", col |-> "", head |-> "", tail |-> ""]

\* the rotator over the cycle lists c and o, as constructed: pc is the number
\* of assignments of the rotation in progress that have run, stmt the last
\* statement generated, hots and colds the columns published by the rotations
StartRot(c, o) ==
    [k |-> 0, pc |-> 0, customer_cycle |-> c, order_cycle |-> o,
     customers0 |-> c, orders0 |-> o,
     current_focus |-> [customers |-> FocusOf(c), orders |-> FocusOf(o)],
     hots |-> [customers |-> <<>>, orders |-> <<>>],
     colds |-> [customers |-> <<>>, orders |-> <<>>],
     stmt |-> NoStmt]

\* the columns published by a finished rotation join the history
Published(r) ==
    [r EXCEPT !.hots = [customers |-> Append(@.customers, r.current_focus.customers.most),
                        orders |-> Append(@.orders, r.current_focus.orders.most)],
              !.colds = [customers |-> Append(@.customers, r.current_focus.customers.least),
                         orders |-> Append(@.orders, r.current_focus.orders.least)]]

\* one call of rotate_focus_once, one turn of the loop of rotate_focus
RotateFocus ==
    LET c == RotateOnce(rot.customer_cycle)
        o == RotateOnce(rot.order_cycle)
    IN
    /\ rot.k < MaxRotations
    /\ rot' = Published([rot EXCEPT !.k = @ + 1, !.customer_cycle = c, !.order_cycle = o,
                          !.current_focus = [customers |-> FocusOf(c), orders |-> FocusOf(o)]])
    /\ UNCHANGED <<mode, freq, catalog, wlock, txn, rec, adv, base, done, erred, loop, gen, xtr, watch>>

\* the cycle lists are the column lists of the two tables, up to a length
InitRotate ==
    /\ mode = "backend"
    /\ freq = <<>>
    /\ catalog = {UniqueIdx}
    /\ wlock = "free"
    /\ txn = [h \in Handles |-> NoTxn]
    /\ rec = [w \in Callers |-> IdleRec]
    /\ adv = IdleAdv
    /\ base = freq
    /\ done = [k \in WorkKeys |-> 0]
    /\ erred = FALSE
    /\ loop = NoLoop
    /\ gen = NoGen
    /\ xtr = NoXtr
    /\ watch = NoWatch
    /\ \E lc, lo \in 1..Min2(MaxCycle, Len(CUSTOMER_COLS)) :
          rot = StartRot(Upto(CUSTOMER_COLS, lc), Upto(ORDER_COLS, lo))

NextRotate == RotateFocus

SpecRotate == InitRotate /\ [][NextRotate]_vars

(***************************************************************************)
(* The rotation as the generating thread sees it: rotate_focus_once runs   *)
(* in its own thread without the simulator lock, so each of its six        *)
(* assignments is a step, and generate reads current_focus between them.   *)
(***************************************************************************)
FocusTables == {"customers", "orders"}

StatementTypes == {"INSERT", "UPDATE", "DELETE", "SELECT"}

\* the cycle list of a table
CycleOf(r, t) == IF t = "customers" THEN r.customer_cycle ELSE r.order_cycle

\* the assignment of rotate_focus_once that runs after pc of them have run
RotateAssign(r) ==
    CASE r.pc = 0 -> [r EXCEPT !.customer_cycle = RotateOnce(@)]
      [] r.pc = 1 -> [r EXCEPT !.order_cycle = RotateOnce(@)]
      [] r.pc = 2 -> [r EXCEPT !.current_focus.customers.most = r.customer_cycle[1]]
      [] r.pc = 3 -> [r EXCEPT !.current_focus.customers.least =
                                   r.customer_cycle[Len(r.customer_cycle)]]
      [] r.pc = 4 -> [r EXCEPT !.current_focus.orders.most = r.order_cycle[1]]
      [] r.pc = 5 -> [r EXCEPT !.current_focus.orders.least =
                                   r.order_cycle[Len(r.order_cycle)]]

\* one assignment of the rotation; the sixth ends it
RotateStep ==
    LET r == RotateAssign(rot) IN
    /\ rot.pc > 0 \/ rot.k < MaxRotations
    /\ rot' = IF rot.pc = 5
              THEN Published([r EXCEPT !.pc = 0, !.k = @ + 1])
              ELSE [r EXCEPT !.pc = @ + 1]
    /\ UNCHANGED <<mode, freq, catalog, wlock, txn, rec, adv, base, done, erred, loop, gen, xtr, watch>>

\* generate: the type and the table are drawn; focus_col is
\* current_focus[table]["most"] or ["least"]; an INSERT names no focus column.
\* head and tail are the ends of the table's cycle list at that moment
Generate(type, table, pick) ==
    /\ rot' = [rot EXCEPT !.stmt =
                  [type |-> type, table |-> table,
                   col |-> IF type = "INSERT" THEN "" ELSE rot.current_focus[table][pick],
                   head |-> CycleOf(rot, table)[1],
                   tail |-> CycleOf(rot, table)[Len(CycleOf(rot, table))]]]
    /\ UNCHANGED <<mode, freq, catalog, wlock, txn, rec, adv, base, done, erred, loop, gen, xtr, watch>>

InitFocus ==
    /\ mode = "backend"
    /\ freq = <<>>
    /\ catalog = {UniqueIdx}
    /\ wlock = "free"
    /\ txn = [h \in Handles |-> NoTxn]
    /\ rec = [w \in Callers |-> IdleRec]
    /\ adv = IdleAdv
    /\ base = freq
    /\ done = [k \in WorkKeys |-> 0]
    /\ erred = FALSE
    /\ loop = NoLoop
    /\ gen = NoGen
    /\ xtr = NoXtr
    /\ watch = NoWatch
    /\ rot = StartRot(CUSTOMER_COLS, ORDER_COLS)

NextFocus ==
    \/ RotateStep
    \/ \E type \in StatementTypes, table \in FocusTables, pick \in {"most", "least"} :
          Generate(type, table, pick)

SpecFocus == InitFocus /\ [][NextFocus]_vars

(***************************************************************************)
(* Column extractor: extract_table and extract_columns, over statements    *)
(* taken as the sequence of their tokens (words, literals and punctuation  *)
(* marks, white space between them).  Lexicon gives, for each token as     *)
(* written, its str.upper(), its str.lower() and the prefix of it that     *)
(* [a-zA-Z_][a-zA-Z0-9_]* matches ("" when it does not start as an         *)
(* identifier).                                                            *)
(***************************************************************************)
Lexicon ==
    { <<"SELECT", "SELECT", "select", "SELECT">>, <<"select", "SELECT", "select", "select">>,
      <<"FROM", "FROM", "from", "FROM">>, <<"from", "FROM", "from", "from">>,
      <<"WHERE", "WHERE", "where", "WHERE">>, <<"INSERT", "INSERT", "insert", "INSERT">>,
      <<"INTO", "INTO", "into", "INTO">>, <<"VALUES", "VALUES", "values", "VALUES">>,
      <<"UPDATE", "UPDATE", "update", "UPDATE">>, <<"SET", "SET", "set", "SET">>,
      <<"DELETE", "DELETE", "delete", "DELETE">>, <<"ORDER", "ORDER", "order", "ORDER">>,
      <<"BY", "BY", "by", "BY">>, <<"DESC", "DESC", "desc", "DESC">>,
      <<"*", "*", "*", "">>, <<"=", "=", "=", "">>, <<">", ">", ">", "">>,
      <<",", ",", ",", "">>, <<"(", "(", "(", "">>, <<")", ")", ")", "">>,
      <<"customers", "CUSTOMERS", "customers", "customers">>,
      <<"orders", "ORDERS", "orders", "orders">>,
      <<"name", "NAME", "name", "name">>, <<"email", "EMAIL", "email", "email">>,
      <<"join_date", "JOIN_DATE", "join_date", "join_date">>,
      <<"customer_id", "CUSTOMER_ID", "customer_id", "customer_id">>,
      <<"amount", "AMOUNT", "amount", "amount">>,
      <<"status", "STATUS", "status", "status">>,
      <<"NAME", "NAME", "name", "NAME">>, <<"EMAIL", "EMAIL", "email", "EMAIL">>,
      <<"JOIN_DATE", "JOIN_DATE", "join_date", "JOIN_DATE">>,
      <<"CUSTOMER_ID", "CUSTOMER_ID", "customer_id", "CUSTOMER_ID">>,
      <<"AMOUNT", "AMOUNT", "amount", "AMOUNT">>,
      <<"STATUS", "STATUS", "status", "STATUS">>,
      <<"Orders", "ORDERS", "orders", "Orders">>,
      <<"ORDERS", "ORDERS", "orders", "ORDERS">>,
      <<"city", "CITY", "city", "city">>, <<"City", "CITY", "city", "City">>,
      <<"CITY", "CITY", "city", "CITY">>,
      <<"id", "ID", "id", "id">>, <<"ID", "ID", "id", "ID">>,
      <<"order_date", "ORDER_DATE", "order_date", "order_date">>,
      <<"ORDER_DATE", "ORDER_DATE", "order_date", "ORDER_DATE">>,
      <<"lastupdate", "LASTUPDATE", "lastupdate", "lastupdate">>,
      <<"LASTUPDATE", "LASTUPDATE", "lastupdate", "LASTUPDATE">>,
      <<"'Pune'", "'PUNE'", "'pune'", "">>, <<"'PUNE'", "'PUNE'", "'pune'", "">>,
      <<"5", "5", "5", "">>, <<"09", "09", "09", "">>,
      <<"4706.09", "4706.09", "4706.09", "">> }

Entry(w) == CHOOSE e \in Lexicon : e[1] = w

\* str.upper(), str.lower(), the identifier a token starts with
Upper(w) == Entry(w)[2]
Lower(w) == Entry(w)[3]
Identifier(w) == Entry(w)[4]

\* sql.upper()
UpperAll(sql) == [i \in 1..Len(sql) |-> Upper(sql[i])]

\* tokens, in upper case, that end in FROM, INTO, UPDATE or JOIN; that start
\* with ORDER, GROUP or LIMIT; that are made of digits only (str.isdigit)
EndsInTableKeyword == {"FROM", "INTO", "UPDATE", "LASTUPDATE"}
StartsWithStop == {"ORDER", "ORDER_DATE"}
Digits == {"5", "09"}

\* col.split(".")[-1]
LastPart(w) == IF w = "4706.09" THEN "09" ELSE w

KEYWORDS ==
    {"SELECT", "FROM", "WHERE", "AND", "OR", "AS", "ON", "IN", "VALUES", "SET", "BY",
     "GROUP", "ORDER", "COUNT", "SUM", "AVG", "MAX", "MIN", "DESC", "ASC"}

\* the stoplist of freq_counter.py
LegacyKeywords ==
    {"SELECT", "FROM", "WHERE", "AND", "OR", "AS", "ON", "IN", "VALUES", "SET", "BY",
     "GROUP", "ORDER"}

\* the least position from i on where P holds, Len(s) + 1 when there is none
Find(s, i, P(_, _)) ==
    LET hits == {j \in i..Len(s) : P(s, j)}
    IN IF hits = {} THEN Len(s) + 1 ELSE CHOOSE j \in hits : \A k \in hits : j <= k

\* (?:FROM|INTO|UPDATE|JOIN)\s+([a-zA-Z_][a-zA-Z0-9_]*), re.IGNORECASE
TableAt(s, i) ==
    /\ i < Len(s)
    /\ Upper(s[i]) \in EndsInTableKeyword
    /\ Identifier(s[i + 1]) # ""

\* extract_table: match.group(1).lower() of the first match, else "unknown"
ExtractTable(sql) ==
    LET i == Find(sql, 1, TableAt)
    IN IF i <= Len(sql) THEN Lower(Identifier(sql[i + 1])) ELSE "unknown"

\* the tokens of s from position i up to the token before position j
Clause(s, i, j) == SubSeq(s, i, j - 1)

\* INSERT\s+INTO\s+\w+\s*\((.*?)\)
InsertAt(s, i) ==
    /\ i + 3 <= Len(s)
    /\ s[i] = "INSERT"
    /\ s[i + 1] = "INTO"
    /\ s[i + 3] = "("
ClosesAt(s, i) == s[i] = ")"
InsertList(s) ==
    LET i == Find(s, 1, InsertAt)
    IN IF i > Len(s) THEN <<>>
       ELSE IF Find(s, i + 4, ClosesAt) > Len(s) THEN <<>>
       ELSE Clause(s, i + 4, Find(s, i + 4, ClosesAt))

\* UPDATE\s+\w+\s+SET\s+(.*?)(?:\s+WHERE|$)
UpdateAt(s, i) ==
    /\ i + 3 <= Len(s)
    /\ s[i] = "UPDATE"
    /\ s[i + 2] = "SET"
WhereAt(s, i) == s[i] = "WHERE"
SetClause(s) ==
    LET i == Find(s, 1, UpdateAt)
    IN IF i > Len(s) THEN <<>> ELSE Clause(s, i + 3, Find(s, i + 4, WhereAt))

\* SELECT\s+(.*?)\s+FROM
SelectAt(s, i) == s[i] = "SELECT" /\ i < Len(s)
FromAt(s, i) == s[i] = "FROM"
SelectList(s) ==
    LET i == Find(s, 1, SelectAt)
    IN IF i > Len(s) THEN <<>>
       ELSE IF Find(s, i + 2, FromAt) > Len(s) THEN <<>>
       ELSE Clause(s, i + 1, Find(s, i + 2, FromAt))

\* faulty variant: the star is a column like another
NeverStar(list) == FALSE

\* if select_list.strip() != "*"
IsStar(list) == list = <<"*">>

\* WHERE\s+(.*?)(?:\s+ORDER|\s+GROUP|\s+LIMIT|$): the stop needs white space
\* in front of it, which the first token of the clause has given to WHERE\s+
StopAt(s, i) == s[i] \in StartsWithStop
WhereClause(s) ==
    LET i == Find(s, 1, WhereAt)
    IN IF i >= Len(s) THEN <<>> ELSE Clause(s, i + 1, Find(s, i + 2, StopAt))

\* ORDER\s+BY\s+(.*?)(?:\s+DESC|\s+ASC|\s+LIMIT|$)
OrderAt(s, i) ==
    /\ i + 2 <= Len(s)
    /\ s[i] = "ORDER"
    /\ s[i + 1] = "BY"
DirectionAt(s, i) == s[i] \in {"DESC", "ASC", "LIMIT"}
OrderList(s) ==
    LET i == Find(s, 1, OrderAt)
    IN IF i > Len(s) THEN <<>> ELSE Clause(s, i + 2, Find(s, i + 3, DirectionAt))

\* re.split on the separators, then the test "col and col.upper() not in
\* KEYWORDS" and cols.append(col.lower()); dotted is whether split(".")[-1]
\* is applied to the piece
Pieces(list, seps, dotted) ==
    {Lower(IF dotted THEN LastPart(list[i]) ELSE list[i]) :
        i \in {j \in 1..Len(list) :
                 /\ list[j] \notin seps
                 /\ (IF dotted THEN LastPart(list[j]) ELSE list[j]) \notin KEYWORDS}}

\* list(set([c for c in cols if c and not c.isdigit()]))
DedupAndFilter(cols) == {c \in cols : c \notin Digits}

\* extract_columns of query_generator.py and of app.py
ExtractColumns(sql) ==
    LET s == UpperAll(sql) IN
    DedupAndFilter(
        Pieces(InsertList(s), {",", "(", ")"}, FALSE)
        \cup Pieces(SetClause(s), {",", "="}, FALSE)
        \cup (IF IsStar(SelectList(s)) THEN {} ELSE Pieces(SelectList(s), {","}, TRUE))
        \cup Pieces(WhereClause(s), {",", "=", "<", ">", "!"}, TRUE)
        \cup Pieces(OrderList(s), {","}, TRUE))

\* freq_counter.py: WHERE\s+(.*?)\s*(?:GROUP|ORDER|LIMIT|;|$) and
\* SET\s+(.*?)\s*(?:WHERE|;|$) stop at the word wherever it begins;
\* ORDER\s+BY\s+(.*?)\s*(?:LIMIT|;|$) runs to the end
LegacyWhere(s) ==
    LET i == Find(s, 1, WhereAt)
    IN IF i >= Len(s) THEN <<>> ELSE Clause(s, i + 1, Find(s, i + 1, StopAt))
SetAt(s, i) == s[i] = "SET" /\ i < Len(s)
LegacySet(s) ==
    LET i == Find(s, 1, SetAt)
    IN IF i > Len(s) THEN <<>> ELSE Clause(s, i + 1, Find(s, i + 1, WhereAt))
LegacyOrder(s) ==
    LET i == Find(s, 1, OrderAt)
    IN IF i > Len(s) THEN <<>> ELSE Clause(s, i + 2, Len(s) + 1)

\* the pieces of a match that are identifiers and not in the stoplist, lower
\* case, in their order, with their repetitions
RECURSIVE LegacyPieces(_)
LegacyPieces(list) ==
    IF list = <<>> THEN <<>>
    ELSE (IF Identifier(Head(list)) = Head(list) /\ Head(list) \notin LegacyKeywords
          THEN <<Lower(Head(list))>> ELSE <<>>) \o LegacyPieces(Tail(list))

\* extract_columns of freq_counter.py: the patterns in their order (no
\* statement here has a GROUP BY)
LegacyExtractColumns(sql) ==
    LET s == UpperAll(sql) IN
    LegacyPieces(SelectList(s)) \o LegacyPieces(LegacyWhere(s)) \o LegacyPieces(LegacyOrder(s))
        \o LegacyPieces(LegacySet(s)) \o LegacyPieces(InsertList(s))

\* the statements handed to the extractor: the shapes the generators render,
\* a select list, and statements that name no table
TableNames == {"customers", "Orders", "ORDERS"}
ColumnNames == {"city", "City", "id", "order_date"}
Literals == {"'Pune'", "5", "4706.09"}

UpdateShape(t, c, v, w, x) == <<"UPDATE", t, "SET", c, "=", v, "WHERE", w, "=", x>>
SelectStar(t) == <<"SELECT", "*", "FROM", t>>
SelectWhere(t, c, v, o) == <<"SELECT", "*", "FROM", t, "WHERE", c, ">", v, "ORDER", "BY", o, "DESC">>
SelectCols(c, d, t) == <<"select", c, ",", d, "from", t>>
DeleteShape(t, c, v) == <<"DELETE", "FROM", t, "WHERE", c, "=", v>>
InsertShape(t, c, d, v, x) ==
    <<"INSERT", "INTO", t, "(", c, ",", d, ")", "VALUES", "(", v, ",", x, ")">>
NoTable == <<"SELECT", "5">>

NewStatement(shape, sql, t, c, w) ==
    [shape |-> shape, sql |-> sql, t |-> t, c |-> c, w |-> w, done |-> FALSE,
     table |-> "", cols |-> {}, legacy |-> <<>>]

\* update_frequency_counter and live_analyzer: extract_table(sql), extract_columns(sql)
Extract ==
    /\ ~xtr.done
    /\ xtr' = [xtr EXCEPT !.done = TRUE, !.table = ExtractTable(xtr.sql),
                          !.cols = ExtractColumns(xtr.sql),
                          !.legacy = LegacyExtractColumns(xtr.sql)]
    /\ UNCHANGED <<mode, freq, catalog, wlock, txn, rec, adv, base, done, erred, loop, gen, rot, watch>>

InitExtract ==
    /\ mode = "backend"
    /\ freq = <<>>
    /\ catalog = {UniqueIdx}
    /\ wlock = "free"
    /\ txn = [h \in Handles |-> NoTxn]
    /\ rec = [w \in Callers |-> IdleRec]
    /\ adv = IdleAdv
    /\ base = freq
    /\ done = [k \in WorkKeys |-> 0]
    /\ erred = FALSE
    /\ loop = NoLoop
    /\ gen = NoGen
    /\ rot = NoRot
    /\ watch = NoWatch
    /\ \E t \in TableNames, c, w \in ColumnNames, v, x \in Literals :
          \/ xtr = NewStatement("update", UpdateShape(t, c, v, w, x), t, c, w)
          \/ xtr = NewStatement("star", SelectStar(t), t, "", "")
          \/ xtr = NewStatement("where", SelectWhere(t, c, v, w), t, c, w)
          \/ xtr = NewStatement("list", SelectCols(c, w, t), t, c, w)
          \/ xtr = NewStatement("list", SelectCols(c, "lastupdate", t), t, c, "lastupdate")
          \/ xtr = NewStatement("delete", DeleteShape(t, c, v), t, c, "")
          \/ xtr = NewStatement("insert", InsertShape(t, c, w, v, x), t, c, w)
          \/ xtr = NewStatement("none", NoTable, "", "", "")

NextExtract == Extract

SpecExtract == InitExtract /\ [][NextExtract]_vars

(***************************************************************************)
(* The statements of QueryGenerator.generate() as tick forwards them to    *)
(* the tracker: rendered by format_sql, a string parameter in quotes and a *)
(* number as its digits, then extracted and counted by                     *)
(* update_frequency_counter.                                               *)
(***************************************************************************)
MaxStatements == 2      \* statements forwarded in one run

\* format_sql: f"'{param}'" for a str, str(param) for a number
Rendered(kind) ==
    CASE kind = "str" -> "'Pune'"
      [] kind = "int" -> "5"
      [] kind = "float" -> "4706.09"

SelectEquals(t, c, v) == <<"SELECT", "*", "FROM", t, "WHERE", c, "=", v>>

InsertCustomers ==
    <<"INSERT", "INTO", "customers", "(", "name", ",", "email", ",", "city", ",",
      "join_date", ")", "VALUES", "(", Rendered("str"), ",", Rendered("str"), ",",
      Rendered("str"), ",", Rendered("str"), ")">>

InsertOrders ==
    <<"INSERT", "INTO", "orders", "(", "customer_id", ",", "order_date", ",", "amount",
      ",", "status", ")", "VALUES", "(", Rendered("int"), ",", Rendered("str"), ",",
      Rendered("float"), ",", Rendered("str"), ")">>

\* generate() and format_sql for a table and the focus column read
GeneratedSql(type, t, focus) ==
    CASE type = "INSERT" -> IF t = "customers" THEN InsertCustomers ELSE InsertOrders
      [] type = "UPDATE" -> UpdateShape(t, focus, Rendered("str"), "id", Rendered("int"))
      [] type = "DELETE" -> DeleteShape(t, focus, Rendered("str"))
      [] type = "SELECT" -> IF t = "customers"
                            THEN SelectEquals(t, focus, Rendered("str"))
                            ELSE SelectWhere(t, focus, Rendered("int"), "order_date")

\* the INSERTs or UPDATEs of "for col in cols", in the order the list of the
\* set gives the columns
RECURSIVE CountColumns(_, _, _)
CountColumns(tab, t, order) ==
    IF order = <<>> THEN tab
    ELSE CountColumns(UpdateOrInsert(tab, t, Head(order)), t, Tail(order))

\* the orders in which a list made of a set may hold its elements
OrdersOf(S) ==
    {o \in [1..Cardinality(S) -> S] : \A i, j \in 1..Cardinality(S) : o[i] = o[j] => i = j}

\* tick: a statement is generated, rendered and handed to
\* update_frequency_counter, which counts each extracted column
ForwardGenerated(type, t, focus) ==
    LET sql == GeneratedSql(type, t, focus)
        table == ExtractTable(sql)
        cols == ExtractColumns(sql)
    IN /\ xtr.n < MaxStatements
       /\ xtr' = [n |-> xtr.n + 1, sql |-> sql, type |-> type, table |-> table, cols |-> cols]
       /\ IF cols = {} \/ table = "unknown"
          THEN freq' = freq
          ELSE \E o \in OrdersOf(cols) : freq' = CountColumns(freq, table, o)
       /\ UNCHANGED <<mode, catalog, wlock, txn, rec, adv, base, done, erred, loop, gen, rot, watch>>

InitWorkload ==
    /\ mode = "backend"
    /\ freq = <<>>
    /\ catalog = {UniqueIdx}
    /\ wlock = "free"
    /\ txn = [h \in Handles |-> NoTxn]
    /\ rec = [w \in Callers |-> IdleRec]
    /\ adv = IdleAdv
    /\ base = freq
    /\ done = [k \in WorkKeys |-> 0]
    /\ erred = FALSE
    /\ loop = NoLoop
    /\ gen = NoGen
    /\ rot = NoRot
    /\ watch = NoWatch
    /\ xtr = [n |-> 0, sql |-> <<>>, type |-> "", table |-> "", cols |-> {}]

NextWorkload ==
    \E type \in StatementTypes, t \in FocusTables :
        \E i \in 1..Len(CycleOf([customer_cycle |-> CUSTOMER_COLS, order_cycle |-> ORDER_COLS], t)) :
            ForwardGenerated(type, t,
                CycleOf([customer_cycle |-> CUSTOMER_COLS, order_cycle |-> ORDER_COLS], t)[i])

SpecWorkload == InitWorkload /\ [][NextWorkload]_vars

(***************************************************************************)
(* The status file of the generator and is_generator_alive() of the        *)
(* frequency counter.  Time is counted in whole seconds.  open(.., "w")    *)
(* truncates the file before write() puts the new content into it, and     *)
(* the watcher is another process: it may read between the two.            *)
(***************************************************************************)
MaxTime == 12

GENERATOR_TIMEOUT == 10

NoSeen == [file |-> "", beat |-> 0, now |-> 0]

StartWatch ==
    [now    |-> 0,
     file   |-> "missing",      \* "missing", "empty", "STOP" or "time"
     beat   |-> 0,              \* the timestamp in the file when file = "time"
     main   |-> "loop",         \* main(): "loop", "beating", "joined", "stopping", "marked", "gone", "killed"
     pc     |-> "idle",         \* is_generator_alive(): "idle" or "read"
     alive  |-> "none",         \* the last result: "none", "yes", "no"
     seen   |-> NoSeen]         \* what the last call found in the file

\* with open(STATUS_FILE, "w") as f:  the file exists and is empty
BeatOpen ==
    /\ watch.main = "loop"
    /\ watch' = [watch EXCEPT !.main = "beating", !.file = "empty"]
    /\ UNCHANGED <<mode, freq, catalog, wlock, txn, rec, adv, base, done, erred, loop, gen, rot, xtr>>

\* f.write(str(time.time()))
BeatWrite ==
    /\ watch.main = "beating"
    /\ watch' = [watch EXCEPT !.main = "loop", !.file = "time", !.beat = watch.now]
    /\ UNCHANGED <<mode, freq, catalog, wlock, txn, rec, adv, base, done, erred, loop, gen, rot, xtr>>

\* stop_event is set: the loop ends, q.join() and the sleep follow
WatchJoin ==
    /\ watch.main = "loop"
    /\ watch' = [watch EXCEPT !.main = "joined"]
    /\ UNCHANGED <<mode, freq, catalog, wlock, txn, rec, adv, base, done, erred, loop, gen, rot, xtr>>

\* the process is killed, or the simulator's loop is stopped: the file keeps
\* the last heartbeat
WatchKill ==
    /\ watch.main = "loop"
    /\ watch' = [watch EXCEPT !.main = "killed"]
    /\ UNCHANGED <<mode, freq, catalog, wlock, txn, rec, adv, base, done, erred, loop, gen, rot, xtr>>

\* with open(STATUS_FILE, "w") as f:
StopOpen ==
    /\ watch.main = "joined"
    /\ watch' = [watch EXCEPT !.main = "stopping", !.file = "empty"]
    /\ UNCHANGED <<mode, freq, catalog, wlock, txn, rec, adv, base, done, erred, loop, gen, rot, xtr>>

\* f.write("STOP")
StopWrite ==
    /\ watch.main = "stopping"
    /\ watch' = [watch EXCEPT !.main = "marked", !.file = "STOP"]
    /\ UNCHANGED <<mode, freq, catalog, wlock, txn, rec, adv, base, done, erred, loop, gen, rot, xtr>>

\* os.remove(STATUS_FILE)
StatusRemove ==
    /\ watch.main = "marked"
    /\ watch' = [watch EXCEPT !.main = "gone", !.file = "missing"]
    /\ UNCHANGED <<mode, freq, catalog, wlock, txn, rec, adv, base, done, erred, loop, gen, rot, xtr>>

\* a second of time.time()
WatchTick ==
    /\ watch.now < MaxTime
    /\ watch' = [watch EXCEPT !.now = watch.now + 1]
    /\ UNCHANGED <<mode, freq, catalog, wlock, txn, rec, adv, base, done, erred, loop, gen, rot, xtr>>

\* if not os.path.exists(STATUS_FILE): return False
AliveExists ==
    /\ watch.pc = "idle"
    /\ watch' = IF watch.file = "missing"
                THEN [watch EXCEPT !.alive = "no",
                                   !.seen = [file |-> "missing", beat |-> 0, now |-> watch.now]]
                ELSE [watch EXCEPT !.pc = "read", !.alive = "none", !.seen = NoSeen]
    /\ UNCHANGED <<mode, freq, catalog, wlock, txn, rec, adv, base, done, erred, loop, gen, rot, xtr>>

\* The value float(content) and the comparison give for the content of the
\* file; open() of a file removed since the test, and float("") of a file
\* just truncated, raise, and the handler returns True.
AliveOf(file, beat, now) ==
    CASE file = "STOP"    -> "no"
      [] file = "time"    -> IF now - beat <= GENERATOR_TIMEOUT THEN "yes" ELSE "no"
      [] file = "empty"   -> "yes"
      [] file = "missing" -> "yes"

\* try: content = open(STATUS_FILE).read().strip() ... except Exception
AliveRead ==
    /\ watch.pc = "read"
    /\ watch' = [watch EXCEPT !.pc = "idle",
                              !.alive = AliveOf(watch.file, watch.beat, watch.now),
                              !.seen = [file |-> watch.file,
                                        beat |-> IF watch.file = "time" THEN watch.beat ELSE 0,
                                        now |-> watch.now]]
    /\ UNCHANGED <<mode, freq, catalog, wlock, txn, rec, adv, base, done, erred, loop, gen, rot, xtr>>

InitWatch ==
    /\ mode = "backend"
    /\ freq = <<>>
    /\ catalog = {UniqueIdx}
    /\ wlock = "free"
    /\ txn = [h \in Handles |-> NoTxn]
    /\ rec = [w \in Callers |-> IdleRec]
    /\ adv = IdleAdv
    /\ base = freq
    /\ done = [k \in WorkKeys |-> 0]
    /\ erred = FALSE
    /\ loop = NoLoop
    /\ gen = NoGen
    /\ rot = NoRot
    /\ xtr = NoXtr
    /\ watch = StartWatch

NextWatch ==
    \/ BeatOpen
    \/ BeatWrite
    \/ WatchJoin
    \/ WatchKill
    \/ StopOpen
    \/ StopWrite
    \/ StatusRemove
    \/ WatchTick
    \/ AliveExists
    \/ AliveRead

SpecWatch == InitWatch /\ [][NextWatch]_vars

(***************************************************************************)
(* freq_counter.py follows the query log while query_gen.py writes it: the *)
(* flusher appends lines to the log file, main beats and shuts down as     *)
(* above, follow_log tests is_generator_alive() before every readline and  *)
(* live_analyzer counts the lines it is given.  A line is the number of    *)
(* its place in the file.                                                  *)
(***************************************************************************)
MaxLines == 2       \* lines the flusher appends to the log file

\* query_gen.py is running and has written a heartbeat; live_analyzer has
\* called follow_log: the log file is open at offset 0
StartFollow ==
    [now    |-> 0,
     file   |-> "time",
     beat   |-> 0,
     main   |-> "loop",
     pc     |-> "idle",
     alive  |-> "none",
     seen   |-> NoSeen,
     log    |-> 0,              \* lines in the log file
     read   |-> 0,              \* lines follow_log has yielded, all counted
     fpc    |-> "alive1",       \* follow_log: "alive1", "open1", "sleep", "alive2", "open2", "readline", "done", "saved"
     saved  |-> 0]              \* lines counted in the saved frequencies

\* flusher: f.writelines(log_buffer) appends to the log file.  Its first
\* flush comes FLUSH_INTERVAL after the start, when main has written its first
\* heartbeat; its last flush comes within FLUSH_INTERVAL of the stop, and main
\* writes STOP only FLUSH_INTERVAL + 0.2 seconds after q.join()
LogFlush ==
    /\ watch.main \in {"loop", "beating", "joined"}
    /\ watch.file # "missing"
    /\ watch.log < MaxLines
    /\ watch' = [watch EXCEPT !.log = @ + 1]
    /\ UNCHANGED <<mode, freq, catalog, wlock, txn, rec, adv, base, done, erred, loop, gen, rot, xtr>>

\* follow_log: if not is_generator_alive(), first or second call:
\* os.path.exists(STATUS_FILE).  After the second False the loop is left
FollowAlive ==
    /\ watch.fpc \in {"alive1", "alive2"}
    /\ watch' = [watch EXCEPT !.fpc = IF watch.file = "missing"
                                      THEN (IF watch.fpc = "alive1" THEN "sleep" ELSE "done")
                                      ELSE (IF watch.fpc = "alive1" THEN "open1" ELSE "open2")]
    /\ UNCHANGED <<mode, freq, catalog, wlock, txn, rec, adv, base, done, erred, loop, gen, rot, xtr>>

\* is_generator_alive: the file is opened and read and the result returned
FollowOpen ==
    /\ watch.fpc \in {"open1", "open2"}
    /\ watch' = [watch EXCEPT !.fpc = IF AliveOf(watch.file, watch.beat, watch.now) = "yes"
                                      THEN "readline"
                                      ELSE (IF watch.fpc = "open1" THEN "sleep" ELSE "done")]
    /\ UNCHANGED <<mode, freq, catalog, wlock, txn, rec, adv, base, done, erred, loop, gen, rot, xtr>>

\* follow_log: time.sleep(CHECK_INTERVAL)
FollowSleep ==
    /\ watch.fpc = "sleep"
    /\ watch' = [watch EXCEPT !.fpc = "alive2"]
    /\ UNCHANGED <<mode, freq, catalog, wlock, txn, rec, adv, base, done, erred, loop, gen, rot, xtr>>

\* follow_log: line = f.readline(); a line is yielded and live_analyzer
\* counts its columns; at the end of the file time.sleep(0.5) and continue
FollowRead ==
    /\ watch.fpc = "readline"
    /\ watch' = [watch EXCEPT !.fpc = "alive1",
                              !.read = IF watch.read < watch.log THEN @ + 1 ELSE @]
    /\ UNCHANGED <<mode, freq, catalog, wlock, txn, rec, adv, base, done, erred, loop, gen, rot, xtr>>

\* live_analyzer: the loop over follow_log has ended:
\* save_frequencies_to_db(counter)
FollowSave ==
    /\ watch.fpc = "done"
    /\ watch' = [watch EXCEPT !.fpc = "saved", !.saved = watch.read]
    /\ UNCHANGED <<mode, freq, catalog, wlock, txn, rec, adv, base, done, erred, loop, gen, rot, xtr>>

InitFollow ==
    /\ mode = "backend"
    /\ freq = <<>>
    /\ catalog = {UniqueIdx}
    /\ wlock = "free"
    /\ txn = [h \in Handles |-> NoTxn]
    /\ rec = [w \in Callers |-> IdleRec]
    /\ adv = IdleAdv
    /\ base = freq
    /\ done = [k \in WorkKeys |-> 0]
    /\ erred = FALSE
    /\ loop = NoLoop
    /\ gen = NoGen
    /\ rot = NoRot
    /\ xtr = NoXtr
    /\ watch = StartFollow

NextFollow ==
    \/ BeatOpen
    \/ BeatWrite
    \/ WatchJoin
    \/ WatchKill
    \/ StopOpen
    \/ StopWrite
    \/ StatusRemove
    \/ WatchTick
    \/ LogFlush
    \/ FollowAlive
    \/ FollowOpen
    \/ FollowSleep
    \/ FollowRead
    \/ FollowSave

SpecFollow == InitFollow /\ [][NextFollow]_vars

(***************************************************************************)
(* Properties of one reconcile cycle (auto_manage_indexes), stated on the  *)
(* frequency table itself: the ranking below does not use the advisor's    *)
(* own sort and slices.                                                    *)
(***************************************************************************)
NameOf(r) == IndexName(r.t, r.c)

\* rows ranked above row i: a higher frequency, or an equal one and an earlier rowid
Above(tab, i) ==
    {j \in 1..Len(tab) : tab[j].n > tab[i].n \/ (tab[j].n = tab[i].n /\ j < i)}

\* rows ranked below row i
Below(tab, i) ==
    {j \in 1..Len(tab) : tab[j].n < tab[i].n \/ (tab[j].n = tab[i].n /\ j > i)}

HighestRows(tab, m) == {i \in 1..Len(tab) : Cardinality(Above(tab, i)) < m}
LowestRows(tab, m) == {i \in 1..Len(tab) : Cardinality(Below(tab, i)) < m}
NamesOfRows(tab, I) == {NameOf(tab[i]) : i \in I}

\* rows in both windows
Overlap(tab) == HighestRows(tab, 3) \cap LowestRows(tab, 6)

\* a cycle has run and returned
CycleDone == adv.ran /\ adv.pc = "idle"

\* C1: once one reconcile has completed, a reconcile that follows it with the
\* frequency table unchanged issues no CREATE INDEX and no DROP INDEX.
C1_SecondCycleNoDDL ==
    [][CycleDone /\ freq' = freq => adv'.created = {} /\ adv'.dropped = {}]_vars

\* C5: with at least 3 rows and no DDL failing, the indexes of the three
\* highest-frequency rows are all in the catalog when reconcile returns,
\* whatever the catalog held before.
C5_TopThreeIndexed ==
    CycleDone /\ Len(freq) >= 3 /\ adv.failed = {}
        => NamesOfRows(freq, HighestRows(freq, 3)) \subseteq catalog

\* what C6 says of a finished cycle: the indexes dropped are exactly those of
\* the six lowest rows that existed before the cycle, they are gone, and every
\* other index that existed is still there
EvictedExactly ==
    LET low == NamesOfRows(freq, LowestRows(freq, 6))
    IN /\ adv.dropped = low \cap adv.cat0
       /\ adv.dropped \cap catalog = {}
       /\ adv.cat0 \ low \subseteq catalog

C7_Original ==
    CycleDone /\ Len(freq) >= 3
        => \A i \in Overlap(freq) :
              NameOf(freq[i]) \in adv.created \ adv.failed
                  => NameOf(freq[i]) \in adv.dropped

\* C7, amended: promote and evict both decide against the catalog read at the
\* start of the cycle, so no index is created and dropped in one cycle: for a
\* row of both windows, an index that was absent is created and kept, and an
\* index that was present is not re-created and is dropped.
C7_OverlapDecidedBySnapshot ==
    CycleDone =>
        /\ adv.created \cap adv.dropped = {}
        /\ Len(freq) >= 3 =>
              \A i \in Overlap(freq) :
                  IF NameOf(freq[i]) \in adv.cat0
                  THEN /\ NameOf(freq[i]) \in adv.dropped \ adv.created
                       /\ NameOf(freq[i]) \notin catalog
                  ELSE /\ NameOf(freq[i]) \in adv.created \ adv.dropped
                       /\ NameOf(freq[i]) \notin adv.failed => NameOf(freq[i]) \in catalog

\* a cycle with two rows in both windows: the index of one was absent, and is
\* created and kept; the index of the other was present, and is dropped
C7_Witness ==
    /\ CycleDone
    /\ \E i, j \in Overlap(freq) :
          /\ NameOf(freq[i]) \in (adv.created \ adv.failed) \cap catalog
          /\ NameOf(freq[j]) \in adv.dropped \ catalog

\* C8: with fewer than 3 rows, reconcile issues no CREATE INDEX and no DROP
\* INDEX and leaves the catalog exactly as it was.
C8_FewRowsNoDDL ==
    [][Len(freq) < 3 => adv'.created = {} /\ adv'.dropped = {} /\ catalog' = catalog]_vars

\* a cycle has run on a table of one or two rows whose indexes exist
C8_Witness ==
    /\ CycleDone
    /\ Len(freq) \in {1, 2}
    /\ NamesOfRows(freq, 1..Len(freq)) \cap catalog # {}

\* C9: every index a cycle creates or drops is that of a row of the frequency
\* table read in the cycle; no CREATE is issued for an index the catalog
\* already held, and no DROP for an index it did not hold.
C9_OnlyRowsOnlyNeeded ==
    [][/\ adv'.created \cup adv'.dropped \subseteq NamesOfRows(freq, 1..Len(freq))
       /\ adv'.created \cap catalog = {}
       /\ adv'.dropped \subseteq catalog]_vars

\* a cycle that created and dropped, that skipped a promote entry whose index
\* existed and an evict entry whose index did not
C9_Witness ==
    /\ CycleDone
    /\ adv.created # {}
    /\ adv.dropped # {}
    /\ \E i \in HighestRows(freq, 3) \ LowestRows(freq, 6) :
          NameOf(freq[i]) \in adv.cat0 \ adv.created
    /\ \E i \in LowestRows(freq, 6) \ HighestRows(freq, 3) :
          NameOf(freq[i]) \notin adv.cat0 \cup adv.dropped

(***************************************************************************)
(* Properties of the tracker, alone and together with the advisor.         *)
(***************************************************************************)
AllIdle == \A w \in Callers : rec[w].pc = "idle"

Count(tab, k) == FreqOf(tab, k[1], k[2])

\* every row of the table is the only row of a key of the workload
OneRowPerKey ==
    /\ \A k \in WorkKeys : Cardinality(RowsOf(freq, k[1], k[2])) <= 1
    /\ \A i \in 1..Len(freq) : <<freq[i].t, freq[i].c>> \in WorkKeys

\* C2: with no store failure, once the calls have returned the frequency of
\* each (table, column) has grown by exactly the number of calls that recorded
\* it (a row absent before is inserted at 1), and every other row is unchanged.
C2_CountsEveryCall ==
    AllIdle /\ ~erred
        => /\ \A k \in WorkKeys : Count(freq, k) = Count(base, k) + done[k]
           /\ OneRowPerKey

\* two calls have recorded a column that had no row: inserted at 1, then updated
C2_Witness ==
    /\ AllIdle
    /\ ~erred
    /\ \E k \in WorkKeys : Count(base, k) = 0 /\ done[k] = 2 /\ Count(freq, k) = 2

\* C3: whatever attempts of a call fail, when the call has finished each of its
\* columns has been incremented by 1 if an attempt committed and by 0 if none
\* did: never by more, and never only part of the columns.
C3_AllOrNothing ==
    AllIdle => \A k \in WorkKeys : Count(freq, k) = Count(base, k) + done[k]

\* each caller has made exactly one call, and it recorded key k
TwoCallsOn(k) ==
    /\ AllIdle
    /\ \A w \in Callers : rec[w].ncalls = 1 /\ k \in KeysOfCall(rec[w])

\* C4 as stated: in every interleaving of two record calls on the same key the
\* final frequency is the initial one plus 2, and the key has exactly one row.
C4_Original ==
    \A k \in WorkKeys :
        TwoCallsOn(k) => /\ Count(freq, k) = Count(base, k) + 2
                         /\ Cardinality(RowsOf(freq, k[1], k[2])) = 1

\* C4, amended: a call under contention is given up, silently, after its third
\* attempt fails; the final frequency is the initial one plus the number of the
\* two calls that committed within three attempts (plus 2 when both did), and
\* the key has one row at most, exactly one once a call has committed.
C4_CountsCommittedCalls ==
    \A k \in WorkKeys :
        TwoCallsOn(k) =>
            LET lost == {w \in Callers : ~rec[w].committed}
            IN /\ Count(freq, k) = Count(base, k) + 2 - Cardinality(lost)
               /\ \A w \in lost : rec[w].attempt = 2
               /\ Cardinality(RowsOf(freq, k[1], k[2])) <= 1
               /\ lost # Callers => Cardinality(RowsOf(freq, k[1], k[2])) = 1

\* both calls met the lock, one committed on a later attempt, and the key
\* holds the initial frequency plus 2
C4_Witness ==
    \E k \in WorkKeys :
        /\ TwoCallsOn(k)
        /\ erred
        /\ \A w \in Callers : rec[w].committed
        /\ \E w \in Callers : rec[w].attempt >= 1
        /\ Count(freq, k) = Count(base, k) + 2

\* C10: every row of the frequency table has a count of at least 1; from one
\* state to the next no row disappears or changes key and no count decreases,
\* whatever the tracker and the advisor do.
C10_CountsOnlyGrow ==
    [][/\ \A i \in 1..Len(freq) : freq[i].n \in Nat \ {0}
       /\ \A i \in 1..Len(freq') : freq'[i].n \in Nat \ {0}
       /\ Len(freq') >= Len(freq)
       /\ \A i \in 1..Len(freq) :
             /\ freq'[i].t = freq[i].t
             /\ freq'[i].c = freq[i].c
             /\ freq'[i].n >= freq[i].n]_vars

\* a row is in the table, counted again after the cycle that dropped its index
C10_Witness ==
    /\ CycleDone
    /\ \E i \in 1..Len(freq) :
          /\ NameOf(freq[i]) \in adv.dropped \ (adv.failed \cup catalog)
          /\ freq[i].n > FreqOf(adv.all, freq[i].t, freq[i].c)

\* no two rows of the table have the same (table_name, column_name)
UniqueKeys(tab) ==
    \A i, j \in 1..Len(tab) : tab[i].t = tab[j].t /\ tab[i].c = tab[j].c => i = j

\* C11: after any sequence and interleaving of record calls, the frequency
\* table, committed or as a connection sees it inside its transaction, holds at
\* most one row per (table_name, column_name).
C11_KeysUnique ==
    /\ UniqueKeys(freq)
    /\ \A h \in Handles : txn[h].open => UniqueKeys(txn[h].tab)

\* two callers on their own connections have recorded a key that had no row,
\* one of them after meeting the other's lock: the key has one row
C11_Witness ==
    /\ mode = "app"
    /\ erred
    /\ \E k \in WorkKeys :
          /\ Count(base, k) = 0
          /\ \A w \in Callers : rec[w].committed /\ k \in KeysOfCall(rec[w])
          /\ Cardinality(RowsOf(freq, k[1], k[2])) = 1
          /\ Count(freq, k) = 2

\* an iteration of the execution loop has run to its end
IterationDone == loop.pc = "idle" /\ loop.n > 0

\* C12: in every iteration of the execution loop whose statement executed
\* successfully, the rendered SQL is forwarded to the tracker exactly once and
\* exactly one entry is appended to the query log.
C12_ForwardedAndLoggedOnce ==
    /\ loop.fwd <= 1
    /\ loop.logged <= 1
    /\ IterationDone /\ loop.ok => loop.fwd = 1 /\ loop.logged = 1

\* an iteration has ended whose statement wrote and was committed after a
\* lock failure, forwarded once and logged once
C12_Witness ==
    /\ IterationDone
    /\ loop.ok
    /\ loop.q.write
    /\ loop.waits # <<>>
    /\ loop.fwd = 1
    /\ loop.logged = 1

\* C13 as stated: an iteration whose statement failed forwards nothing to the
\* tracker, so that the frequency table is as it was, and appends no log entry.
C13_Original ==
    IterationDone /\ ~loop.ok => loop.fwd = 0 /\ freq = loop.freq0 /\ loop.logged = 0

\* one attempt of DBManager.execute, as the step from loop to loop'
C14_ExecStep ==
    mode = "backend" /\ loop.pc = "exec" /\ loop' # loop =>
        /\ loop'.tried = loop.tried + 1
        /\ loop'.tried <= ExecRetries
        /\ (loop'.pc = "exec") <=> (loop'.last = "locked" /\ loop'.tried < ExecRetries)
        /\ loop'.pc = "exec" => loop'.waits = Append(loop.waits, loop'.tried)
        /\ loop'.pc # "exec" => /\ loop'.waits = loop.waits
                                /\ loop'.ok <=> loop'.last = "ok"

\* C14: DBManager.execute makes at most 3 attempts; another attempt follows
\* only a 'locked' failure that was not the last attempt, after a wait of
\* delay times the number of the failed attempt; a failure that is not a lock
\* failure, or a lock failure on the last attempt, ends the call with the
\* error; the first success ends the call.
C14_BoundedRetry == [][C14_ExecStep]_vars

\* the third attempt succeeded, after waits of 1 x delay and 2 x delay
C14_Witness ==
    /\ mode = "backend"
    /\ loop.pc # "exec"
    /\ loop.tried = ExecRetries
    /\ loop.ok
    /\ loop.waits = <<1, 2>>

\* a record call of caller w has ended without its commit
FailedCall(w) == rec[w].pc = "idle" /\ rec[w].t # "" /\ ~rec[w].committed

\* C15 as stated: a record call that met the lock has run its span 3 times
\* before it gives up, and then returns without raising.
C15_Original ==
    \A w \in Callers : FailedCall(w) => rec[w].attempt = MaxRetries - 1 /\ ~rec[w].raised

\* extraction found no table (the sentinel "unknown") or no columns in the
\* statement of the iteration
ExtractionFoundNothing == loop.q.t = "unknown" \/ loop.q.cols = {}

\* C16: when extraction finds no table or no columns in a statement, the
\* frequency table is left as it was, and the statement is still executed and
\* still appended to the query log.
C16_SkippedButRunAndLogged ==
    /\ (loop.pc # "idle" \/ loop.n > 0) /\ ExtractionFoundNothing => freq = loop.freq0
    /\ IterationDone /\ ExtractionFoundNothing =>
          /\ loop.tried >= 1
          /\ loop.fwd = 1
          /\ loop.logged = 1
          /\ \A w \in Callers : rec[w].t = ""

\* a statement with columns but no table has gone through an iteration on a
\* table that has rows
C16_Witness ==
    /\ IterationDone
    /\ loop.q.t = "unknown"
    /\ loop.q.cols # {}
    /\ loop.ok
    /\ loop.logged = 1
    /\ freq # <<>>
    /\ freq = loop.freq0

\* C17 as stated: the heartbeat is written once in an iteration whose statement
\* executed successfully and not at all in one whose statement failed.
C17_Original == IterationDone => loop.beats = (IF loop.ok THEN 1 ELSE 0)

\* C18 as stated: no loop thread ends while the process runs; here, while no
\* stop has been requested the queue worker and the flusher are in their loops.
C18_Original ==
    ~gen.stop /\ gen.main # "off" =>
        /\ gen.worker \in {"top", "get", "run"}
        /\ gen.flusher \in {"check", "sleep"}

\* statement i has its entry in the sequence of entries s
EntryIn(i, s) == \E j \in 1..Len(s) : s[j] = i

\* C19 as stated: when STOP is written every statement that was put on the
\* queue has been executed and has its entry in the log file, and the buffer
\* is empty.
C19_Original ==
    gen.main = "stopped" =>
        /\ gen.buffer = <<>>
        /\ \A i \in 1..gen.putn : i \in gen.executed /\ EntryIn(i, gen.file)

\* after k rotations the list c is the original c0 exactly when k is a
\* multiple of its length
BackAtMultiples(c, c0, k) == (c = c0) <=> (k % Len(c0) = 0)

\* the first and the last column of a list longer than 1 differ
EndsDiffer(c) == Len(c) > 1 => c[1] # c[Len(c)]

\* C20: k rotations of a cycle list of L distinct columns give the original
\* order if and only if k mod L = 0, and after any number of rotations the
\* head (most) and tail (least) columns differ when L > 1.
C20_RotationPeriod ==
    /\ BackAtMultiples(rot.customer_cycle, rot.customers0, rot.k)
    /\ BackAtMultiples(rot.order_cycle, rot.orders0, rot.k)
    /\ EndsDiffer(rot.customer_cycle)
    /\ EndsDiffer(rot.order_cycle)
    /\ rot.current_focus.customers = FocusOf(rot.customer_cycle)
    /\ rot.current_focus.orders = FocusOf(rot.order_cycle)

\* the five customers columns are back in their order after five rotations,
\* while a shorter orders list is not in its own
C20_Witness ==
    /\ rot.customers0 = CUSTOMER_COLS
    /\ rot.k = Len(CUSTOMER_COLS)
    /\ rot.customer_cycle = CUSTOMER_COLS
    /\ rot.order_cycle # rot.orders0
    /\ rot.current_focus.customers.most # rot.current_focus.customers.least

\* the list c holds every column of the list cols once and nothing else
PermutationOf(c, cols) ==
    /\ Len(c) = Len(cols)
    /\ \A i \in 1..Len(cols) : Cardinality({j \in 1..Len(c) : c[j] = cols[i]}) = 1

\* the columns of a list
ColumnsIn(c) == {c[i] : i \in 1..Len(c)}

\* C21: in every reachable state, the states between two assignments of a
\* rotation included, each table's cycle list is a permutation of its declared
\* columns, and the published most and least columns are columns of the list.
C21_FocusIsPermutation ==
    /\ PermutationOf(rot.customer_cycle, CUSTOMER_COLS)
    /\ PermutationOf(rot.order_cycle, ORDER_COLS)
    /\ {rot.current_focus.customers.most, rot.current_focus.customers.least}
          \subseteq ColumnsIn(rot.customer_cycle)
    /\ {rot.current_focus.orders.most, rot.current_focus.orders.least}
          \subseteq ColumnsIn(rot.order_cycle)

\* a statement was generated while a rotation had moved the customers list
\* and not yet published its ends
C21_Witness ==
    /\ rot.pc = 2
    /\ rot.k > 0
    /\ rot.stmt.type = "SELECT"
    /\ rot.stmt.table = "customers"
    /\ rot.current_focus.customers.most # rot.customer_cycle[1]
    /\ PermutationOf(rot.customer_cycle, CUSTOMER_COLS)

\* C22 as stated: every generated statement has one of the four types and a
\* declared table, and the focus column of an UPDATE, DELETE or SELECT is the
\* head or the tail of the table's cycle list at the moment of generation.
C22_Original ==
    rot.stmt # NoStmt =>
        /\ rot.stmt.type \in StatementTypes
        /\ rot.stmt.table \in FocusTables
        /\ rot.stmt.type # "INSERT" => rot.stmt.col \in {rot.stmt.head, rot.stmt.tail}

\* list c2 is list c moved by one cyclic position
MovedByOne(c2, c) ==
    /\ Len(c2) = Len(c)
    /\ \A i \in 1..Len(c) : c2[i] = c[(i % Len(c)) + 1]

\* a finished rotation: both lists moved by one position; the new most column
\* is the previous second column, the new least column the previous head
C30_Step ==
    rot'.k = rot.k + 1 =>
        /\ MovedByOne(rot'.customer_cycle, rot.customer_cycle)
        /\ MovedByOne(rot'.order_cycle, rot.order_cycle)
        /\ \A t \in FocusTables :
              /\ rot'.current_focus[t].most = CycleOf(rot, t)[(1 % Len(CycleOf(rot, t))) + 1]
              /\ rot'.current_focus[t].least = CycleOf(rot, t)[1]

\* every run of Len(cols) consecutive entries of the history h names every
\* column of cols, hence each once
EachOncePerRound(h, cols) ==
    \A i \in 1..(Len(h) - Len(cols) + 1) :
        {h[j] : j \in i..(i + Len(cols) - 1)} = ColumnsIn(cols)

C30_Rounds ==
    /\ EachOncePerRound(rot.hots.customers, rot.customers0)
    /\ EachOncePerRound(rot.colds.customers, rot.customers0)
    /\ EachOncePerRound(rot.hots.orders, rot.orders0)
    /\ EachOncePerRound(rot.colds.orders, rot.orders0)

\* C30: each rotation moves every table's list by exactly one cyclic position,
\* the new most column being the previous second one and the new least column
\* the previous most one; hence in any L consecutive rotations every column of
\* the table is most exactly once and least exactly once.
C30_OnePositionPerRotation == [][C30_Step]_vars /\ []C30_Rounds

\* two full rounds over the five customers columns have been published
C30_Witness ==
    /\ rot.customers0 = CUSTOMER_COLS
    /\ rot.k = 2 * Len(CUSTOMER_COLS)
    /\ Len(rot.hots.customers) = rot.k
    /\ Len(rot.orders0) = 2
    /\ rot.hots.orders[1] = rot.colds.orders[2]

\* C23 as stated: for a rendered UPDATE t SET c = <literal> WHERE w = <literal>,
\* extract_columns returns exactly {c, w}: the identifiers left of the
\* operators and nothing of the values.
C23_Original ==
    xtr.done /\ xtr.shape = "update" => xtr.cols = {Lower(xtr.c), Lower(xtr.w)}

\* the positions of a statement where the word FROM, INTO, UPDATE or JOIN, in
\* either case, stands in front of a token that starts as an identifier
TableKeywordPositions(sql) ==
    {i \in 1..(Len(sql) - 1) :
        /\ Upper(sql[i]) \in {"FROM", "INTO", "UPDATE", "JOIN"}
        /\ Identifier(sql[i + 1]) # ""}

\* C24 as stated: extract_table returns, lower-cased, the identifier after the
\* first FROM, INTO, UPDATE or JOIN that is followed by one, and "unknown" for
\* a statement with no such keyword.
C24_Original ==
    xtr.done =>
        LET at == TableKeywordPositions(xtr.sql)
        IN IF at = {} THEN xtr.table = "unknown"
           ELSE \E i \in at : /\ \A j \in at : i <= j
                              /\ xtr.table = Lower(Identifier(xtr.sql[i + 1]))

\* C25: extract_columns returns the empty set for SELECT * FROM t, whatever
\* the table name t.
C25_StarNamesNoColumn ==
    xtr.done /\ xtr.shape = "star" => xtr.cols = {}

\* SELECT * FROM Orders has been through the extractor: table orders, no column
C25_Witness ==
    /\ xtr.done
    /\ xtr.sql = SelectStar("Orders")
    /\ xtr.table = "orders"
    /\ xtr.cols = {}

\* the tokens that are the str.lower() of a token
LowerForms == {e[3] : e \in Lexicon}

\* the upper-case forms of a lower-case token
UpperOf(c) == {e[2] : e \in {d \in Lexicon : d[3] = c}}

\* C26 as stated: whatever the statement, the extracted columns are lower
\* case, hold no keyword of the extractor's stoplist, no token of digits and
\* no column twice, so that a statement counts a (table, column) at most once;
\* the same for the list freq_counter.py counts from.
C26_Original ==
    xtr.done =>
        /\ \A c \in xtr.cols :
              c \in LowerForms /\ UpperOf(c) \cap KEYWORDS = {} /\ c \notin Digits
        /\ \A i \in 1..Len(xtr.legacy) :
              /\ xtr.legacy[i] \in LowerForms
              /\ UpperOf(xtr.legacy[i]) \cap LegacyKeywords = {}
              /\ xtr.legacy[i] \notin Digits
              /\ \A j \in 1..Len(xtr.legacy) : xtr.legacy[i] = xtr.legacy[j] => i = j


\* C27: when is_generator_alive() has returned, it has answered alive if and
\* only if it found a heartbeat timestamp in the status file and the time
\* of the call is at most 10 seconds after it; a missing file, the STOP
\* marker, a stale timestamp and content that is no timestamp answer not
\* alive.
C27_Original ==
    watch.alive # "none" =>
        (watch.alive = "yes" <=>
            /\ watch.seen.file = "time"
            /\ watch.seen.now - watch.seen.beat <= GENERATOR_TIMEOUT)


\* the number of entries statement i has in the log: the file and the buffer
\* that is still to be flushed
EntriesOf(i) ==
    LET log == gen.file \o gen.buffer
    IN Cardinality({j \in 1..Len(log) : log[j] = i})

\* C29 as stated: a statement gives rise to one log entry and no more, and
\* an entry is appended only for a statement just taken from the queue: a
\* statement that was not executed has no entry, one that was executed has
\* at most one, and exactly one once the worker is back at the top of its
\* loop.
C29_Original ==
    \A i \in 1..MaxPuts :
        /\ EntriesOf(i) <= 1
        /\ EntriesOf(i) = 1 => i \in gen.executed
        /\ i \in gen.executed /\ gen.worker = "top" => EntriesOf(i) = 1


\* the columns the call in progress has already incremented
AppliedSoFar(w) ==
    IF rec[w].pc = "cols" THEN {<<rec[w].t, c>> : c \in rec[w].cols \ rec[w].todo} ELSE {}

\* the names of the rows at positions lo..hi of the ranking a cycle read
NamesAt(all, lo, hi) == {NameOf(all[i]) : i \in {j \in 1..Len(all) : lo <= j /\ j <= hi}}

\* the record calls lose no increment and apply none twice: the table as
\* the caller's connection sees it holds, for each key, the initial count
\* plus one per call that recorded it plus one if the call in progress has
\* incremented it, rows of other keys are as they were, once a call has
\* returned the committed table holds these counts, and no statement of a
\* call finds the store locked by the cycle
IncrementsExact ==
    LET w == SharedCaller
        h == HandleOf(w)
        seen == ViewFreq(World, h)
    IN /\ \A k \in WorkKeys :
             Count(seen, k) = Count(base, k) + done[k]
                              + (IF k \in AppliedSoFar(w) THEN 1 ELSE 0)
       /\ \A i \in 1..Len(base) :
             <<base[i].t, base[i].c>> \notin WorkKeys => seen[i] = base[i]
       /\ UniqueKeys(seen)
       /\ rec[w].pc = "idle" =>
             /\ \A k \in WorkKeys : Count(freq, k) = Count(base, k) + done[k]
             /\ rec[w].cols # {} => rec[w].committed
       /\ rec[w].pc = "cols" => CanWrite(World, h)
       /\ ~erred

\* the cycle issues CREATE only for rows among the three highest and DROP
\* only for rows among the six lowest of the ranking it read
DecidedOnRankingRead ==
    /\ adv.created \subseteq NamesAt(adv.all, 1, 3)
    /\ adv.dropped \subseteq NamesAt(adv.all, Len(adv.all) - 5, Len(adv.all))

\* C28: under every interleaving of the statements of a reconcile() cycle
\* with the statements of the record calls made meanwhile, no frequency
\* increment is lost or applied twice, and the cycle creates only indexes of
\* rows among the three highest and drops only indexes of rows among the six
\* lowest of the ranking it read.
C28_InterleavedCycle == IncrementsExact /\ DecidedOnRankingRead

\* a cycle that has created an index is at its DROP statements while a call
\* has incremented one of its two columns, on the connection both share, and
\* the ranking the cycle read is no longer the ranking of the table: a row
\* outside its three highest is now among them
C28_Witness ==
    /\ mode = "backend"
    /\ adv.pc = "drop"
    /\ adv.created # {}
    /\ adv.dropped # {}
    /\ rec[SharedCaller].pc = "cols"
    /\ rec[SharedCaller].ncalls = 2
    /\ AppliedSoFar(SharedCaller) # {}
    /\ rec[SharedCaller].todo # {}
    /\ NamesAt(OrderByFrequencyDesc(ViewFreq(World, "h")), 1, 3) # NamesAt(adv.all, 1, 3)
    /\ Len(adv.all) = 7


\* the rows at positions lo..hi of a ranking
RowsAt(all, lo, hi) == {all[i] : i \in {j \in 1..Len(all) : lo <= j /\ j <= hi}}

\* the rows of a table at the positions I
RowsOfTable(tab, I) == {tab[i] : i \in I}

RankOf(all, name) == CHOOSE i \in 1..Len(all) : NameOf(all[i]) = name

\* C32: a CREATE INDEX or DROP INDEX that fails does not end the cycle: when
\* the cycle has returned, a statement has been issued for every row of the
\* promote window whose index was absent and for every row of the evict
\* window whose index was present, whichever of them failed, and the
\* statements that succeeded are committed: the indexes created are in the
\* catalog and the indexes dropped are not.  A cycle in progress that has
\* met a failure is still in progress.
C32_FailureSkipped ==
    /\ CycleDone /\ Len(adv.all) >= 3 =>
          /\ adv.created = NamesAt(adv.all, 1, 3) \ adv.existing
          /\ adv.dropped = NamesAt(adv.all, Len(adv.all) - 5, Len(adv.all)) \cap adv.existing
          /\ adv.created \ adv.failed \subseteq catalog
          /\ (adv.dropped \ adv.failed) \cap catalog = {}
          /\ \A h \in Handles : txn[h].open =>
                /\ adv.created \ adv.failed \subseteq txn[h].cat
                /\ (adv.dropped \ adv.failed) \cap txn[h].cat = {}
    /\ adv.failed \subseteq adv.created \cup adv.dropped
    /\ adv.failed # {} => adv.pc # "idle" \/ adv.ran

\* a cycle has returned in which a CREATE failed and a CREATE for a row
\* ranked after it succeeded, and a DROP failed and a DROP for a row ranked
\* after it succeeded
C32_Witness ==
    /\ CycleDone
    /\ \E f \in adv.created \cap adv.failed, g \in adv.created \ adv.failed :
          RankOf(adv.all, f) < RankOf(adv.all, g) /\ g \in catalog
    /\ \E f \in adv.dropped \cap adv.failed, g \in adv.dropped \ adv.failed :
          RankOf(adv.all, f) < RankOf(adv.all, g) /\ g \notin catalog /\ f \in catalog


\* C33 as stated: every row of the frequency table names a declared column
\* of its table: the table is customers or orders and the column one of the
\* five columns of that table; no rendered parameter is a key.
C33_Original ==
    \A i \in 1..Len(freq) :
        /\ freq[i].t \in FocusTables
        /\ freq[i].c \in DeclaredCols(freq[i].t)


\* the columns of the call in progress whose increment is in the committed
\* table, where every connection reads it
Exposed(w) ==
    {k \in KeysOfCall(rec[w]) : Count(freq, k) > Count(base, k) + done[k]}

\* C34 as stated: while a record call is in progress the committed table
\* holds the increments of all of its columns or of none: no commit issued
\* by the other loop on the shared connection exposes a part of them.
C34_Original ==
    rec[SharedCaller].pc = "cols" =>
        \/ Exposed(SharedCaller) = {}
        \/ Exposed(SharedCaller) = KeysOfCall(rec[SharedCaller])


\* a statement of the cycle, on the connection the cycle works on: the
\* frequency table read on that connection is as before, the committed
\* table changes only when the commit of the cycle publishes what the
\* connection already held, and an index that is gone, from the
\* connection's catalog or from the committed one, is that of a row among
\* the six lowest of the ranking read; idx_freq_unique stays
C35_Step ==
    adv' # adv =>
        LET h == HandleOf("adv")
            low == NamesAt(adv'.all, Len(adv'.all) - 5, Len(adv'.all))
        IN /\ ViewFreq(World, h)' = ViewFreq(World, h)
           /\ freq' # freq => txn[h].open /\ freq' = txn[h].tab
           /\ ViewCat(World, h) \ ViewCat(World, h)' \subseteq low
           /\ catalog \ catalog' \subseteq low
           /\ UniqueIdx \notin low
           /\ rec' = rec

C36_Original ==
    /\ gen.tdone = Cardinality(gen.executed)
    /\ gen.unfinished >= 0
    /\ gen.main \in {"sleep", "stopped", "removed"} => \A i \in 1..gen.putn : i \in gen.executed

\* C37 (as stated): under fair scheduling of the threads, once stop_event is
\* set main returns from q.join(), writes STOP and removes the status file
C37_Original == gen.stop ~> gen.main = "removed"

\* C38 (as stated): when follow_log stops because the generator is no
\* longer alive, no unread line remains in the log file, and the frequencies
\* saved at termination count every line of the log
C38_Stop ==
    /\ (watch.fpc # "done" /\ watch'.fpc = "done") => watch'.read = watch'.log
    /\ (watch.fpc # "saved" /\ watch'.fpc = "saved") => watch'.saved = watch'.log

C38_Original == [][C38_Stop]_vars

====
